---- MODULE Spec2Model ----
(***************************************************************************)
(* Model of the LCD user interface of mta-train-updates: the main loop of  *)
(* app.py (input dispatch, render scheduler, render_now), the button queue *)
(* of mta_app/buttons.py, the Wi-Fi scan worker thread started by          *)
(* start_wifi_scan, the snapshots published by mta_app/monitor.py, and the *)
(* finally block that tears the collaborators down.                        *)
(*                                                                         *)
(* Time is counted in ticks of 20 ms, the length of the loop's sleep, and   *)
(* the scheduler's clock is kept relative to the last render.              *)
(***************************************************************************)
EXTENDS Integers, Sequences, FiniteSets, TLC

\* ---------------------------------------------------------------- bounds
MaxStations == 2      \* stations a settings file may list
MaxArrivals == 3      \* arrivals a station snapshot may hold (print_limit)
MaxQueue    == 1      \* button events waiting in the queue
MaxEvents   == 3      \* button presses in one run
MaxQueueView  == 2    \* the same two, for the runs of SpecView
MaxEventsView == 3
MaxEventsSched == 1   \* button presses in one run of SpecSched
MaxEventsLcd == 1     \* button presses in one run of SpecLcd
MaxEventsBuffer == 5  \* button presses in one run of SpecBuffer
MaxEventsRace == 3    \* button presses in one run of SpecRace
MaxEventsMon == 1     \* button presses in one run of SpecMon

\* ------------------------------------------------------ program constants
STATE_MAIN          == "MAIN"
STATE_SETTINGS_ROOT == "SETTINGS"
STATE_IP            == "IP"
STATE_WIFI_LIST     == "WIFI_LIST"
STATE_WIFI_PASS     == "WIFI_PASS"
STATE_WEB           == "WEB"
STATE_BUFFER        == "BUFFER"
STATE_ABOUT         == "ABOUT"

States == {STATE_MAIN, STATE_SETTINGS_ROOT, STATE_IP, STATE_WIFI_LIST,
           STATE_WIFI_PASS, STATE_WEB, STATE_BUFFER, STATE_ABOUT}

Kinds == {"LEFT", "RIGHT", "UP", "DOWN", "SELECT", "SELECT_LONG"}

NoneIdx        == -1    \* Python None for an optional index
SettingsCount  == 5     \* entries of the settings menu
LeaveBufferMax == 60
PassLen        == 16    \* characters of the password buffer
CharsetLen     == 86    \* characters of charset; a character is its index, 0 is " "
FastPeriod     == 6     \* 0.12 s
SlowPeriod     == 25    \* 0.5 s
MarqueeTick    == 35    \* tick_s = 0.35 s, in units of 10 ms
MarqueeGap     == 4     \* blanks between two rounds of a scrolling text
COLS           == 20
ROWS           == 4

Min(a, b) == IF a < b THEN a ELSE b
Max(a, b) == IF a > b THEN a ELSE b

\* ----------------------------------------------------------------- inputs
Ssids       == {"a", "b"}
ScanResults == {<<>>, <<"a">>, <<"a", "b">>}
ActiveSsids == {"", "a"}
Durations   == {3, SlowPeriod}    \* ticks from one clock reading to the next
SlowPasses  == {SlowPeriod}       \* the same for a loop that is never faster than 0.5 s
ArrivalCounts == {0, MaxArrivals}
BlankPass   == [i \in 1..PassLen |-> 0]

\* what load_settings returns for a valid settings.json
LoadableBuffers == {0, LeaveBufferMax}
ValidSettings ==
    { [count |-> c, fav |-> f, buf |-> b] :
        c \in 1..MaxStations, f \in NoneIdx..(MaxStations - 1), b \in LoadableBuffers }
LoadedSettingsUnchecked == ValidSettings
LoadedSettings == { s \in ValidSettings : s.fav < s.count }
NoLoad      == [ok |-> FALSE, s |-> [count |-> 1, fav |-> NoneIdx, buf |-> 0]]
LoadResults == [ok : {TRUE}, s : LoadedSettings] \cup {NoLoad}

StationIdx == 0..(MaxStations - 1)

\* WeatherSnapshot: what WeatherWorker holds before the first fetch, and two
\* results of fetch_weather_open_meteo (updated_at, a time stamp, is left out);
\* temperatures are in tenths of a degree Celsius
NoTemp == -100000   \* Python None for a temperature
WxInit ==
    [condition_text |-> <<"-">>, condition_kind |-> "cloudy",
     pop_pct |-> NoneIdx, temp_c |-> NoTemp, feels_like_c |-> NoTemp]
WxClear ==
    [condition_text |-> <<"C", "l", "e", "a", "r">>,
     condition_kind |-> "sunny", pop_pct |-> 5, temp_c |-> 400, feels_like_c |-> -25]
WxPartlyCloudy ==
    [condition_text |-> <<"P", "a", "r", "t", "l", "y", " ", "c", "l", "o", "u", "d", "y">>,
     condition_kind |-> "cloudy", pop_pct |-> 100, temp_c |-> -124,
     feels_like_c |-> NoTemp]
WeatherSnaps == {WxInit, WxClear, WxPartlyCloudy}

\* how a fetch of the arrivals worker ends: with a feed, with a
\* requests.RequestException, with any other exception
FetchOutcomes == {"ok", "request_error", "other_error"}
NoEvent == [kind |-> "NONE", seq |-> 0]

VARIABLES
    \* main(): UI variables
    state, page, station_count, last_page, settings_sel,
    station_scroll, last_page_seen,
    favorite_station_index, leave_buffer_min,
    wifi_supported, wifi_ssids, wifi_sel, wifi_active, wifi_target,
    wifi_pass, wifi_cursor, charset_idx,
    wifi_scanning, wifi_scan_status,
    \* main(): loop locals and render scheduler
    main_pc, ev, state_changed, since_render, rendered,
    \* collaborators
    queue, pushed, lcd, arrivals, force_refresh, saved, connect_calls,
    scan_pc,
    \* main(): the finally block
    td_pc, attempted,
    \* Monitor and WeatherWorker
    mon_feed, last_error, wx, wx_pc,
    \* LCDUI
    last_lines, marquee_offset, marquee_since,
    home_weather_offset, home_weather_since,
    \* the character display behind LCDUI.lcd: the text it shows, and for the
    \* last _write_lines call its padded lines and the rows it wrote
    display, norm, written,
    \* what the last render_now read besides the variables above
    render_in,
    \* main(): the right-hand side of "wifi_sel = ..." that the UP/DOWN branch
    \* of the Wi-Fi list has evaluated and not yet stored (NoneIdx: none)
    sel_rhs,
    \* Monitor: where its thread is in _run and _poll_once, the _stop event,
    \* the thread of a Monitor that a reload has stopped and replaced, and
    \* whether force_refresh() was called and no cycle has started since
    mon_pc, mon_stop, old_pc, mon_req

uiVars == <<state, page, station_count, last_page, settings_sel,
            station_scroll, last_page_seen,
            favorite_station_index, leave_buffer_min,
            wifi_supported, wifi_ssids, wifi_sel, wifi_active, wifi_target,
            wifi_pass, wifi_cursor, charset_idx,
            wifi_scanning, wifi_scan_status>>
loopVars == <<main_pc, ev, state_changed, since_render, rendered>>
envVars == <<queue, pushed, lcd, arrivals, force_refresh, saved, connect_calls,
             scan_pc>>
tdVars == <<td_pc, attempted>>
workVars == <<mon_feed, last_error, wx, wx_pc>>
lcdVars == <<last_lines, marquee_offset, marquee_since,
             home_weather_offset, home_weather_since, display, norm, written,
             render_in>>
raceVars == <<sel_rhs>>
monVars == <<mon_pc, mon_stop, old_pc, mon_req>>
vars == <<uiVars, loopVars, envVars, tdVars, raceVars, monVars, workVars, lcdVars>>

\* -------------------------------------------------- the UI state as a value
\* The variables main() and its closures read and write, gathered so that the
\* event dispatch can be applied to them as a function.  The last three fields
\* are what a dispatch asks of the loop: state_changed, a pending call of
\* connect_wifi, an exception that leaves the loop.
U ==
    [state |-> state, page |-> page, station_count |-> station_count,
     last_page |-> last_page, settings_sel |-> settings_sel,
     station_scroll |-> station_scroll, last_page_seen |-> last_page_seen,
     favorite_station_index |-> favorite_station_index,
     leave_buffer_min |-> leave_buffer_min,
     wifi_ssids |-> wifi_ssids, wifi_sel |-> wifi_sel,
     wifi_active |-> wifi_active, wifi_target |-> wifi_target,
     wifi_pass |-> wifi_pass, wifi_cursor |-> wifi_cursor,
     charset_idx |-> charset_idx,
     wifi_scanning |-> wifi_scanning, wifi_scan_status |-> wifi_scan_status,
     arrivals |-> arrivals, force_refresh |-> force_refresh, saved |-> saved,
     scan_pc |-> scan_pc,
     state_changed |-> FALSE, call_connect |-> FALSE, raised |-> FALSE]

IsStationPage(u) == 1 <= u.page /\ u.page <= u.station_count

\* start_wifi_scan(): nothing while a scan runs or without nmcli; otherwise set
\* the flag and the status and start the worker thread.
StartWifiScanAlways(u) ==
    [u EXCEPT !.wifi_scanning = TRUE,
              !.wifi_scan_status = "Scanning...",
              !.scan_pc = "get_active"]
StartWifiScan(u) ==
    IF u.wifi_scanning \/ ~wifi_supported
    THEN u
    ELSE [u EXCEPT !.wifi_scanning = TRUE,
                   !.wifi_scan_status = "Scanning...",
                   !.scan_pc = "get_active"]

\* save_app_fields_to_settings(): the app fields written to settings.json;
\* reading, parsing or writing the file may raise (save_ok false)
SaveAppFieldsNowhere(u, save_ok) == u
SaveAppFields(u, save_ok) ==
    IF save_ok
    THEN [u EXCEPT !.saved = [fav |-> u.favorite_station_index,
                              buf |-> u.leave_buffer_min]]
    ELSE [u EXCEPT !.raised = TRUE]

\* "Reset scroll when you land on a station page", top of the loop body
ResetScroll(u) ==
    IF u.last_page_seen # u.page
    THEN [u EXCEPT !.station_scroll =
                       IF IsStationPage(u)
                       THEN [u.station_scroll EXCEPT ![u.page - 1] = 0]
                       ELSE u.station_scroll,
                   !.last_page_seen = u.page]
    ELSE u

\* "state = <parent>; state_changed = True", the LEFT branch of every state
\* other than MAIN
BackStays(u, parent) == [u EXCEPT !.state_changed = TRUE]
Back(u, parent) == [u EXCEPT !.state = parent, !.state_changed = TRUE]

\* page = last_page if page == 0 else (page - 1)
PrevPage(pg, last) == IF pg = 0 THEN last ELSE pg - 1

\* page = 0 if page == last_page else (page + 1)
NextPageClamped(pg, last) == IF pg = last THEN last ELSE pg + 1
NextPage(pg, last) == IF pg = last THEN 0 ELSE pg + 1

\* ---------- MAIN NAV ----------
ApplyMain(u, k, save_ok) ==
    CASE k = "LEFT" ->
           [u EXCEPT !.page = PrevPage(u.page, u.last_page),
                     !.state_changed = TRUE]
      [] k = "RIGHT" ->
           [u EXCEPT !.page = NextPage(u.page, u.last_page),
                     !.state_changed = TRUE]
      [] k = "SELECT" ->
           IF u.page = u.last_page
           THEN [u EXCEPT !.state = STATE_SETTINGS_ROOT, !.state_changed = TRUE]
           ELSE [u EXCEPT !.force_refresh = TRUE]
      [] k = "UP" ->
           IF IsStationPage(u)
           THEN [u EXCEPT !.station_scroll[u.page - 1] = Max(0, @ - 1),
                          !.state_changed = TRUE]
           ELSE u
      [] k = "DOWN" ->
           IF IsStationPage(u)
           THEN LET max_off == Max(0, u.arrivals[u.page - 1] - 2)
                IN [u EXCEPT !.station_scroll[u.page - 1] = Min(max_off, @ + 1),
                             !.state_changed = TRUE]
           ELSE u
      [] k = "SELECT_LONG" ->
           IF IsStationPage(u)
           THEN LET v == SaveAppFields(
                              [u EXCEPT !.favorite_station_index = u.page - 1],
                              save_ok)
                IN IF v.raised THEN v ELSE [v EXCEPT !.state_changed = TRUE]
           ELSE u
      [] OTHER -> u

\* ---------- SETTINGS ROOT ----------
\* settings_sel = (settings_sel - 1) % 5 and (settings_sel + 1) % 5
SelUpClamped(sel) == Max(0, sel - 1)
SelUp(sel) == (sel - 1) % SettingsCount
SelDown(sel) == (sel + 1) % SettingsCount

ApplySettings(u, k) ==
    CASE k = "UP" ->
           [u EXCEPT !.settings_sel = SelUp(@), !.state_changed = TRUE]
      [] k = "DOWN" ->
           [u EXCEPT !.settings_sel = SelDown(@), !.state_changed = TRUE]
      [] k = "LEFT" ->
           Back(u, STATE_MAIN)
      [] k = "SELECT" ->
           LET v == CASE u.settings_sel = 0 -> [u EXCEPT !.state = STATE_IP]
                      [] u.settings_sel = 1 ->
                           LET w == [u EXCEPT !.state = STATE_WIFI_LIST,
                                              !.wifi_sel = 0,
                                              !.wifi_ssids = <<>>,
                                              !.wifi_active = "",
                                              !.wifi_scan_status =
                                                  IF ~wifi_supported THEN "nmcli missing"
                                                  ELSE "Scanning..."]
                           IN IF wifi_supported THEN StartWifiScan(w) ELSE w
                      [] u.settings_sel = 2 -> [u EXCEPT !.state = STATE_WEB]
                      [] u.settings_sel = 3 -> [u EXCEPT !.state = STATE_BUFFER]
                      [] u.settings_sel = 4 -> [u EXCEPT !.state = STATE_ABOUT]
                      [] OTHER -> u
           IN [v EXCEPT !.state_changed = TRUE]
      [] OTHER -> u

\* ---------- IP PAGE / ABOUT PAGE ----------
ApplyBackOnAnyKey(u, k) ==
    [u EXCEPT !.state = STATE_SETTINGS_ROOT, !.state_changed = TRUE]
ApplyBackOnly(u, k) ==
    IF k = "LEFT"
    THEN Back(u, STATE_SETTINGS_ROOT)
    ELSE u

\* ---------- LEAVE BUFFER PAGE ----------
ApplyBuffer(u, k, save_ok) ==
    CASE k = "UP" ->
           [u EXCEPT !.leave_buffer_min = Min(LeaveBufferMax, @ + 1),
                     !.state_changed = TRUE]
      [] k = "DOWN" ->
           [u EXCEPT !.leave_buffer_min = Max(0, @ - 1), !.state_changed = TRUE]
      [] k = "LEFT" ->
           Back(u, STATE_SETTINGS_ROOT)
      [] k = "SELECT" ->
           LET v == SaveAppFields(u, save_ok)
           IN IF v.raised THEN v
              ELSE [v EXCEPT !.state = STATE_SETTINGS_ROOT,
                             !.state_changed = TRUE]
      [] OTHER -> u

\* page = min(page, last_page) after a reload
ClampPageToHome(pg, last) == IF pg > last THEN 0 ELSE pg
ClampPage(pg, last) == Min(pg, last)

\* ---------- WEB PAGE ----------
\* SELECT reloads settings.json: load is what load_settings returns or raises.
\* A new Monitor starts with an empty snapshot for every station.
ApplyWeb(u, k, load) ==
    CASE k = "LEFT" ->
           Back(u, STATE_SETTINGS_ROOT)
      [] k = "SELECT" ->
           IF ~load.ok
           THEN [u EXCEPT !.raised = TRUE]
           ELSE LET new_last == load.s.count + 1
                IN [u EXCEPT !.favorite_station_index = load.s.fav,
                             !.leave_buffer_min = load.s.buf,
                             !.arrivals = [i \in StationIdx |-> 0],
                             !.force_refresh = FALSE,
                             !.station_count = load.s.count,
                             !.last_page = new_last,
                             !.page = ClampPage(u.page, new_last),
                             !.state_changed = TRUE]
      [] OTHER -> u

\* ---------- WIFI LIST PAGE ----------
\* SELECT on a listed network: the password page opens on a blank buffer
EnterWifiPassKeepBuffer(u) ==
    [u EXCEPT !.wifi_target = u.wifi_ssids[u.wifi_sel + 1],
              !.state = STATE_WIFI_PASS,
              !.state_changed = TRUE]
EnterWifiPass(u) ==
    [u EXCEPT !.wifi_target = u.wifi_ssids[u.wifi_sel + 1],
              !.wifi_pass = BlankPass,
              !.wifi_cursor = 0,
              !.charset_idx = 0,
              !.state = STATE_WIFI_PASS,
              !.state_changed = TRUE]

\* the SELECT branch: "if not wifi_supported ... elif wifi_scanning ...
\* elif not wifi_ssids ... else ..."
SelectWifiWhileScanning(u) ==
    IF ~wifi_supported
    THEN [u EXCEPT !.state = STATE_SETTINGS_ROOT, !.state_changed = TRUE]
    ELSE IF u.wifi_ssids = <<>>
    THEN [StartWifiScan(u) EXCEPT !.state_changed = TRUE]
    ELSE IF u.wifi_sel >= Len(u.wifi_ssids)
    THEN [u EXCEPT !.raised = TRUE]
    ELSE EnterWifiPass(u)
SelectWifi(u) ==
    IF ~wifi_supported
    THEN [u EXCEPT !.state = STATE_SETTINGS_ROOT, !.state_changed = TRUE]
    ELSE IF u.wifi_scanning
    THEN u
    ELSE IF u.wifi_ssids = <<>>
    THEN [StartWifiScan(u) EXCEPT !.state_changed = TRUE]
    ELSE IF u.wifi_sel >= Len(u.wifi_ssids)
    THEN [u EXCEPT !.raised = TRUE]          \* IndexError
    ELSE EnterWifiPass(u)

ApplyWifiList(u, k) ==
    CASE k = "LEFT" ->
           Back(u, STATE_SETTINGS_ROOT)
      [] k = "UP" ->
           IF u.wifi_ssids # <<>>
           THEN [u EXCEPT !.wifi_sel = Max(0, @ - 1), !.state_changed = TRUE]
           ELSE u
      [] k = "DOWN" ->
           IF u.wifi_ssids # <<>>
           THEN [u EXCEPT !.wifi_sel = Min(Len(u.wifi_ssids) - 1, @ + 1),
                          !.state_changed = TRUE]
           ELSE u
      [] k = "SELECT" -> SelectWifi(u)
      [] OTHER -> u

\* ---------- WIFI PASSWORD PAGE ----------
\* wifi_cursor = min(15, wifi_cursor + 1)
NextCursorUnbounded(c) == c + 1
NextCursor(c) == Min(PassLen - 1, c + 1)

\* SELECT calls connect_wifi and waits for it: the rest of the branch is
\* AfterConnect.
ApplyWifiPass(u, k) ==
    CASE k = "LEFT" ->
           Back(u, STATE_WIFI_LIST)
      [] k = "RIGHT" ->
           [u EXCEPT !.wifi_cursor = NextCursor(@),
                     !.charset_idx = 0,
                     !.state_changed = TRUE]
      [] k \in {"UP", "DOWN"} ->
           LET idx == IF k = "UP" THEN (u.charset_idx + 1) % CharsetLen
                                  ELSE (u.charset_idx - 1) % CharsetLen
           IN [u EXCEPT !.charset_idx = idx,
                        !.wifi_pass[u.wifi_cursor + 1] = idx,
                        !.state_changed = TRUE]
      [] k = "SELECT" ->
           [u EXCEPT !.call_connect = TRUE]
      [] OTHER -> u

AfterConnect(u, ok) ==
    [StartWifiScan([u EXCEPT !.state = STATE_WIFI_LIST,
                             !.wifi_scan_status = IF ok THEN "Connected" ELSE "Failed"])
         EXCEPT !.state_changed = TRUE]

\* the branches of "if ev:", chosen by the state and then by the kind
Apply(u, k, load, save_ok) ==
    CASE u.state = STATE_MAIN          -> ApplyMain(u, k, save_ok)
      [] u.state = STATE_SETTINGS_ROOT -> ApplySettings(u, k)
      [] u.state = STATE_IP            -> ApplyBackOnly(u, k)
      [] u.state = STATE_BUFFER        -> ApplyBuffer(u, k, save_ok)
      [] u.state = STATE_ABOUT         -> ApplyBackOnly(u, k)
      [] u.state = STATE_WEB           -> ApplyWeb(u, k, load)
      [] u.state = STATE_WIFI_LIST     -> ApplyWifiList(u, k)
      [] u.state = STATE_WIFI_PASS     -> ApplyWifiPass(u, k)
      [] OTHER -> u

\* "if ev:" - nothing is dispatched when pop_event returned None
Dispatch(u, e, load, save_ok) ==
    IF e.kind = "NONE" THEN u ELSE Apply(u, e.kind, load, save_ok)

\* ------------------------------------------------------------- render_now
\* What a render hands to the display, as far as the UI variables decide it.
Frame(screen, pg, sel, off, n, status) ==
    [screen |-> screen, page |-> pg, sel |-> sel, off |-> off, n |-> n,
     status |-> status]

BlankFrame == Frame("blank", 0, 0, 0, 0, "")

\* render_now(): the frame for the current state; on a station page the stored
\* offset is clamped to the snapshot read by this render, and the window
\* arr[off : off + 2] starts at the clamped offset.
ClampOffsetNever(off, n) == off
ClampOffset(off, n) ==
    LET max_off == Max(0, n - 2)
    IN IF off > max_off THEN max_off ELSE off

RenderNow(u) ==
    IF u.state = STATE_MAIN
    THEN IF u.page = 0
         THEN [u |-> u,
               frame |-> Frame("home", u.page, u.favorite_station_index, 0, 0, "")]
         ELSE IF u.page = u.last_page
         THEN [u |-> u, frame |-> Frame("landing", u.page, 0, 0, 0, "")]
         ELSE LET st_idx  == u.page - 1
                  off     == u.station_scroll[st_idx]
                  n       == u.arrivals[st_idx]
                  clamped == ClampOffset(off, n)
              IN [u |-> [u EXCEPT !.station_scroll[st_idx] = clamped],
                  frame |-> Frame("station", u.page, st_idx, clamped, n, "")]
    ELSE IF u.state = STATE_SETTINGS_ROOT
    THEN [u |-> u, frame |-> Frame(u.state, u.page, u.settings_sel, 0, 0, "")]
    ELSE IF u.state = STATE_WIFI_LIST
    THEN [u |-> u,
          frame |-> Frame(u.state, u.page, u.wifi_sel, 0, Len(u.wifi_ssids),
                          IF u.wifi_scanning \/ u.wifi_scan_status # ""
                          THEN u.wifi_scan_status ELSE "")]
    ELSE IF u.state = STATE_WIFI_PASS
    THEN [u |-> u, frame |-> Frame(u.state, u.page, u.wifi_cursor, 0, 0, "")]
    ELSE IF u.state = STATE_BUFFER
    THEN [u |-> u, frame |-> Frame(u.state, u.page, u.leave_buffer_min, 0, 0, "")]
    ELSE [u |-> u, frame |-> Frame(u.state, u.page, 0, 0, 0, "")]

\* -------------------------------------------------------- RENDER SCHEDULER
\* now_t - last_render_t for a clock read d ticks after the previous reading;
\* from SlowPeriod on, every comparison of the scheduler has the same outcome
Elapsed(since, d) == Min(SlowPeriod, since + d)

MinRenderPeriodSlow(u) == SlowPeriod
MinRenderPeriod(u) ==
    IF u.state = STATE_MAIN /\ 0 < u.page /\ u.page < u.last_page
    THEN FastPeriod
    ELSE SlowPeriod

\* elapsed is now_t - last_render_t
PeriodicDue(u, elapsed) ==
    \/ elapsed >= MinRenderPeriod(u)
    \/ (u.state = STATE_WIFI_LIST /\ u.wifi_scanning)

ShouldRenderWhenDue(u, elapsed) == PeriodicDue(u, elapsed)
ShouldRender(u, elapsed) == u.state_changed \/ PeriodicDue(u, elapsed)

\* the values of u become the values of the variables
Commit(u) ==
    /\ state' = u.state
    /\ page' = u.page
    /\ station_count' = u.station_count
    /\ last_page' = u.last_page
    /\ settings_sel' = u.settings_sel
    /\ station_scroll' = u.station_scroll
    /\ last_page_seen' = u.last_page_seen
    /\ favorite_station_index' = u.favorite_station_index
    /\ leave_buffer_min' = u.leave_buffer_min
    /\ wifi_ssids' = u.wifi_ssids
    /\ wifi_sel' = u.wifi_sel
    /\ wifi_active' = u.wifi_active
    /\ wifi_target' = u.wifi_target
    /\ wifi_pass' = u.wifi_pass
    /\ wifi_cursor' = u.wifi_cursor
    /\ charset_idx' = u.charset_idx
    /\ wifi_scanning' = u.wifi_scanning
    /\ wifi_scan_status' = u.wifi_scan_status
    /\ arrivals' = u.arrivals
    /\ force_refresh' = u.force_refresh
    /\ saved' = u.saved
    /\ scan_pc' = u.scan_pc
    /\ UNCHANGED wifi_supported

\* the end of the loop body: the render scheduler, render_now when it is due,
\* then the sleep
Finish(u, elapsed) ==
    /\ state_changed' = u.state_changed
    /\ main_pc' = "loop"
    /\ IF ShouldRender(u, elapsed)
       THEN LET r == RenderNow(u)
            IN /\ Commit(r.u)
               /\ lcd' = r.frame
               /\ since_render' = 0          \* last_render_t = now_t
               /\ rendered' = TRUE
       ELSE /\ Commit(u)
            /\ UNCHANGED lcd
            /\ since_render' = elapsed
            /\ rendered' = FALSE

\* ------------------------------------------------------------------ LCDUI
\* A text is a sequence of characters, each a one-character string; the
\* custom characters chr(0)..chr(7) of the display are single characters too.
Chr(n) == <<"chr(0)", "chr(1)", "chr(2)", "chr(3)",
            "chr(4)", "chr(5)", "chr(6)", "chr(7)">>[n + 1]

Spaces(n) == [i \in 1..n |-> " "]

\* s[a:b] of Python for 0 <= a
Slice(s, a, b) == SubSeq(s, a + 1, Min(b, Len(s)))

\* LCDUI._pad
PadNever(s, width) == s
Pad(s, width) == Slice(Slice(s, 0, width) \o Spaces(width), 0, width)

\* put() of render_home: s written into line from column col1 (1-based),
\* characters outside the line dropped
Put(line, col1, s) ==
    [i \in 1..Len(line) |->
        IF i >= col1 /\ i < col1 + Len(s) THEN s[i - col1 + 1] ELSE line[i]]

\* str(n) for n >= 0
RECURSIVE Dec(_)
Dec(n) ==
    LET digit == <<"0", "1", "2", "3", "4", "5", "6", "7", "8", "9">>[(n % 10) + 1]
    IN IF n < 10 THEN <<digit>> ELSE Dec(n \div 10) \o <<digit>>

\* str.rjust
RJust(s, width) == IF Len(s) >= width THEN s ELSE Spaces(width - Len(s)) \o s

\* f"{n:02d}" for n >= 0
Dec2(n) == IF n < 10 THEN <<"0">> \o Dec(n) ELSE Dec(n)

\* str.strip for blanks
RECURSIVE Strip(_)
Strip(s) ==
    IF s = <<>> THEN s
    ELSE IF Head(s) = " " THEN Strip(Tail(s))
    ELSE IF s[Len(s)] = " " THEN Strip(SubSeq(s, 1, Len(s) - 1))
    ELSE s

\* round() of Python for the number v / scale: to the nearest integer, a half
\* to the even neighbour
Round(v, scale) ==
    LET q == v \div scale
        r == v % scale
    IN IF 2 * r < scale THEN q
       ELSE IF 2 * r > scale THEN q + 1
       ELSE IF q % 2 = 0 THEN q ELSE q + 1

\* LCDUI._marquee_window: off and since are the field's offset and the time
\* since the field's last tick, read at this render
MarqueeStepUnbounded(off, len) == off + 1
MarqueeStep(off, len) == (off + 1) % (len + MarqueeGap)

MarqueeWindow(text, width, off, since) ==
    IF Len(text) <= width
    THEN [window |-> Pad(text, width), off |-> 0, since |-> since]
    ELSE LET tick   == since >= MarqueeTick
             start  == IF tick THEN MarqueeStep(off, Len(text)) ELSE off
             scroll == text \o Spaces(MarqueeGap)
         IN [window |-> Slice(scroll \o scroll, start, start + width),
             off    |-> start,
             since  |-> IF tick THEN 0 ELSE since]

\* LCDUI._marquee_18: the same for the 18 columns of a station name
Marquee18(text, off, since) == MarqueeWindow(text, 18, off, since)

\* LCDUI._arrow_char, _heart_char, _home_char, _weather_icon_kind
ArrowChar(direction) == IF direction = "N" THEN Chr(0) ELSE Chr(1)
HeartChar == Chr(2)
HomeChar == Chr(3)
WeatherIconKind(kind) ==
    CASE kind = "sunny" -> Chr(4)
      [] kind = "snow" -> Chr(7)
      [] kind \in {"rain", "storm"} -> Chr(6)
      [] OTHER -> Chr(5)

\* time.strftime("%H:%M") at a render
Clock == <<"0", "9", ":", "4", "1">>

\* the characters the password page cycles through (charset of main)
Charset ==
    <<" ", "a", "b", "c", "d", "e", "f", "g", "h", "i", "j", "k", "l",
      "m", "n", "o", "p", "q", "r", "s", "t", "u", "v", "w", "x", "y",
      "z", "A", "B", "C", "D", "E", "F", "G", "H", "I", "J", "K", "L",
      "M", "N", "O", "P", "Q", "R", "S", "T", "U", "V", "W", "X", "Y",
      "Z", "0", "1", "2", "3", "4", "5", "6", "7", "8", "9", "!", "@",
      "#", "$", "%", "^", "&", "*", "(", ")", "-", "_", "=", "+", "[",
      "]", "{", "}", ".", ",", ":", "?", "/">>

\* settings.json: stop_name, direction and direction_label of station i
StopName(i) ==
    CASE i = 0 -> <<"J", "a", "m", "a", "i", "c", "a", " ", "C", "e", "n", "t", "e", "r", "-", "P", "a", "r", "s", "o", "n", "s", "/", "A", "r", "c", "h", "e", "r">>
      [] i = 1 -> <<"G", "r", "a", "n", "d", " ", "C", "e", "n", "t", "r", "a", "l", "-", "4", "2", " ", "S", "t">>
      [] OTHER -> <<"1", "4", " ", "S", "t", "-", "U", "n", "i", "o", "n", " ", "S", "q">>
Direction(i) == IF i = 1 THEN "N" ELSE "S"
DirectionLabel(i) ==
    IF i = 1 THEN <<"U", "p", "t", "o", "w", "n">>
    ELSE <<"D", "o", "w", "n", "t", "o", "w", "n", " ", "&", " ", "B", "r", "o", "o", "k", "l", "y", "n">>

\* the names nmcli reports for the networks of the model
SsidText(s) ==
    CASE s = "a" -> <<"A", "p", "a", "r", "t", "m", "e", "n", "t", " ", "4", "B", " ", "G", "u", "e", "s", "t", " ", "N", "e", "t", "w", "o", "r", "k", " ", "5", "G", "H", "z">>
      [] s = "b" -> <<"c", "a", "f", "e">>
      [] OTHER -> <<>>

\* the text of wifi_scan_status
StatusText(s) ==
    CASE s = "Scanning..." -> <<"S", "c", "a", "n", "n", "i", "n", "g", ".", ".", ".">>
      [] s = "Scan failed" -> <<"S", "c", "a", "n", " ", "f", "a", "i", "l", "e", "d">>
      [] s = "No networks" -> <<"N", "o", " ", "n", "e", "t", "w", "o", "r", "k", "s">>
      [] s = "nmcli missing" -> <<"n", "m", "c", "l", "i", " ", "m", "i", "s", "s", "i", "n", "g">>
      [] s = "Connected" -> <<"C", "o", "n", "n", "e", "c", "t", "e", "d">>
      [] s = "Failed" -> <<"F", "a", "i", "l", "e", "d">>
      [] OTHER -> <<>>

\* c_to_f: tenths of a degree Celsius to hundredths of a degree Fahrenheit
CToF(c) == IF c = NoTemp THEN NoTemp ELSE 18 * c + 3200

\* fmt_signed2 of render_home for the number v / scale
FmtSigned2(v, scale) ==
    IF v = NoTemp THEN <<" ", "-", "-">>
    ELSE LET n == Max(-99, Min(99, Round(v, scale)))
         IN IF n < 0 THEN <<"-">> \o Dec2(0 - n) ELSE <<" ">> \o Dec2(n)

\* sorted() of Python on a list of integers
RECURSIVE Sorted(_)
Sorted(s) ==
    IF s = <<>> THEN s
    ELSE LET rest == Sorted(Tail(s))
             k    == Cardinality({i \in 1..Len(rest) : rest[i] < Head(s)})
         IN SubSeq(rest, 1, k) \o <<Head(s)>> \o SubSeq(rest, k + 1, Len(rest))

\* render_now, home page: the ETA the leave line is computed from, etas being
\* sorted and not empty
ChooseEtaSoonest(etas, buffer) == etas[1]
ChooseEta(etas, buffer) ==
    LET late == {i \in 1..Len(etas) : etas[i] >= buffer}
    IN IF late # {}
       THEN etas[CHOOSE i \in late : \A j \in late : i <= j]
       ELSE etas[1]

\* render_now, home page: the leave line from the snapshot of the favorite;
\* arr is that snapshot's list of (route, eta)
LeaveLine(fav, buffer, arr) ==
    IF fav = NoneIdx THEN <<"F", "a", "v", ":", " ", "(", "h", "o", "l", "d", " ", "S", "e", "l", "e", "c", "t", ")">>
    ELSE LET known == SelectSeq(arr, LAMBDA a : a[2] # NoneIdx)
             etas  == Sorted([i \in 1..Len(known) |-> known[i][2]])
         IN IF etas = <<>> THEN <<"F", "a", "v", ":", " ", "n", "o", " ", "E", "T", "A">>
            ELSE LET leave_in == ChooseEta(etas, buffer) - buffer
                 IN IF leave_in <= 0 THEN <<"L", "e", "a", "v", "e", " ", "n", "o", "w">>
                    ELSE <<"L", "e", "a", "v", "e", " ", "i", "n", " ">> \o Dec2(leave_in) \o <<" ", "m", "i", "n">>

\* LCDUI.render_home: the four lines and the marquee state of the weather text
RenderHome(ws, unit, leave_line, off, since) ==
    LET scale == IF unit = "F" THEN 100 ELSE 10
        temp  == IF unit = "F" THEN CToF(ws.temp_c) ELSE ws.temp_c
        feels == IF unit = "F" THEN CToF(ws.feels_like_c) ELSE ws.feels_like_c
        cond  == Strip(IF ws.condition_text = <<>> THEN <<"-">>
                       ELSE ws.condition_text)
        mq    == MarqueeWindow(cond, 8, off, since)
        pop4  == IF ws.pop_pct = NoneIdx THEN <<" ", " ", "-", "-">>
                 ELSE RJust(Dec2(ws.pop_pct), 4)
        row1  == Put(Put(Put(Put(Spaces(COLS),
                     1, <<WeatherIconKind(ws.condition_kind)>>),
                     2, <<" ">>),
                     3, mq.window),
                     12, <<"P", "o", "P", ":">> \o pop4 \o <<"%">>)
        row2  == Put(Put(Put(Put(Put(Put(Spaces(COLS),
                     1, <<"T", "e", "m", "p", ".", ":">>),
                     7, FmtSigned2(temp, scale)),
                     10, <<unit>>),
                     12, <<"F", "e", "e", "l", ":">>),
                     17, FmtSigned2(feels, scale)),
                     20, <<unit>>)
    IN [lines |-> <<row1, row2, Pad(leave_line, 20),
                    Pad(Clock, 15) \o Pad(<<"<", " ", HomeChar, " ", ">">>, 5)>>,
        off |-> mq.off, since |-> mq.since]

\* fmt_line of render_station for row i (0-based) of the window
FmtLine(window, i, label) ==
    IF i >= Len(window) THEN Pad(<<>>, 16)
    ELSE LET route == window[i + 1][1]
             eta   == window[i + 1][2]
             r3    == Slice(Strip(IF route = <<>> THEN <<"?">> ELSE route), 0, 3)
             right == RJust(IF eta = NoneIdx THEN <<"-", "-", "m">>
                            ELSE Dec(eta) \o <<"m">>, 4)
         IN Pad(r3 \o <<">", " ">> \o label, 16) \o right

\* LCDUI.render_station: window is arr[off : off + 2]
RenderStation(st_idx, window, page_idx, is_favorite, off, since) ==
    LET mq       == Marquee18(StopName(st_idx), off, since)
        page_str == RJust(<<"<", " ">> \o Dec(page_idx) \o <<" ", ">">>, 5)
        part     == Slice(page_str, Len(page_str) - 5, Len(page_str))
        row4     == Put(Put(Put(Spaces(COLS),
                        1, Slice(Clock, 0, 5)),
                        14, IF is_favorite THEN <<HeartChar>> ELSE <<>>),
                        16, part)
    IN [lines |-> <<mq.window \o <<" ">> \o <<ArrowChar(Direction(st_idx))>>,
                    FmtLine(window, 0, DirectionLabel(st_idx)),
                    FmtLine(window, 1, DirectionLabel(st_idx)),
                    row4>>,
        off |-> mq.off, since |-> mq.since]

\* < heart > at the right of the bottom line of the settings pages
HeartPage == RJust(<<"<", " ", HeartChar, " ", ">">>, 5)

\* LCDUI.render_settings_landing
RenderSettingsLanding ==
    <<Pad(<<"S", "e", "t", "t", "i", "n", "g", "s", ":">>, 20), Pad(<<"P", "r", "e", "s", "s", " ", "S", "e", "l", "e", "c", "t">>, 20),
      Pad(<<"L", "/", "R", ":", " ", "P", "a", "g", "e", "s">>, 20), Pad(Clock, 15) \o Pad(HeartPage, 5)>>

\* LCDUI.render_settings_menu: a title, a window of three of the five items,
\* and the time line
SettingsItems ==
    <<<<"I", "P", " ", "a", "d", "d", "r", "e", "s", "s">>,
      <<"W", "i", " ", "F", "i">>,
      <<"S", "e", "l", "e", "c", "t", " ", "s", "t", "a", "t", "i", "o", "n", "s">>,
      <<"L", "e", "a", "v", "e", " ", "b", "u", "f", "f", "e", "r">>,
      <<"A", "b", "o", "u", "t">>>>

RenderSettingsMenu(selected_idx) ==
    LET sel   == Max(0, Min(selected_idx, Len(SettingsItems) - 1))
        start == Max(0, Min(sel - 1, Len(SettingsItems) - 3))
        row(i) == Pad((IF start + i = sel THEN <<">">> ELSE <<" ">>)
                      \o <<" ">> \o SettingsItems[start + i + 1], 20)
    IN <<Pad(<<"S", "e", "t", "t", "i", "n", "g", "s", ":">>, 20), row(0), row(1), row(2),
         Pad(Clock, 15) \o Pad(HeartPage, 5)>>

\* LCDUI.render_ip_page, render_leave_buffer_page, render_about_page,
\* render_web_config_page
RenderIpPage(ip) ==
    <<Pad(<<"I", "P", " ", "a", "d", "d", "r", "e", "s", "s", ":">>, 20), Pad(<<"I", "P", ":", " ">> \o ip, 20),
      Pad(<<"L", "e", "f", "t", ":", " ", "B", "a", "c", "k">>, 20), Pad(Clock, 20)>>

RenderLeaveBufferPage(buffer_min) ==
    <<Pad(<<"L", "e", "a", "v", "e", " ", "b", "u", "f", "f", "e", "r", ":">>, 20),
      Pad(RJust(Dec(buffer_min), 2) \o <<" ", "m", "i", "n", " ", "b", "e", "f", "o", "r", "e", " ", "t", "r", "a", "i", "n">>, 20),
      Pad(<<"U", "p", "/", "D", "o", "w", "n", " ", "c", "h", "a", "n", "g", "e">>, 20), Pad(Clock, 20)>>

RenderAboutPage ==
    <<Pad(<<"A", "b", "o", "u", "t", ":">>, 20), Pad(<<"P", "r", "o", "j", "e", "c", "t", " ", "b", "y">>, 20),
      Pad(<<"R", "o", "n", "i", "s", "h", " ", "N", "a", "d", "a", "r">>, 20), Pad(Clock, 20)>>

RenderWebConfigPage(url) ==
    <<Pad(<<"S", "e", "l", "e", "c", "t", " ", "s", "t", "a", "t", "i", "o", "n", "s", ":">>, 20), Pad(<<"O", "p", "e", "n", ":">>, 20),
      Pad(url, 20), Pad(Clock, 20)>>

\* LCDUI.render_wifi_list_page
RenderWifiListPage(networks, active_ssid, selected_idx, status) ==
    LET bottom == IF status # "" THEN StatusText(status) ELSE Clock
    IN IF networks = <<>>
       THEN <<Pad(<<"W", "i", " ", "F", "i", ":">>, 20), Pad(<<"N", "o", " ", "n", "e", "t", "w", "o", "r", "k", "s">>, 20),
              Pad(<<"L", "e", "f", "t", ":", " ", "B", "a", "c", "k">>, 20), Pad(bottom, 20)>>
       ELSE LET sel   == Max(0, Min(selected_idx, Len(networks) - 1))
                start == Max(0, Min(sel, Len(networks) - 2))
                win   == Slice(networks, start, start + 2)
                row(i) ==
                    IF i < Len(win)
                    THEN LET ssid == win[i + 1]
                         IN Pad((IF start + i = sel THEN <<">">> ELSE <<" ">>)
                                \o (IF ssid = active_ssid /\ ssid # ""
                                    THEN <<"*">> ELSE <<" ">>)
                                \o <<" ">> \o SsidText(ssid), 20)
                    ELSE Spaces(20)
            IN <<Pad(<<"W", "i", " ", "F", "i", ":">>, 20), row(0), row(1), Pad(bottom, 20)>>

\* LCDUI.render_wifi_password_page: password is the list of charset indexes
RenderWifiPasswordPage(ssid, password, cursor) ==
    LET cur   == Max(0, Min(cursor, 15))
        text  == [i \in 1..Len(password) |-> Charset[password[i] + 1]]
        shown == Slice(text \o Spaces(16), 0, 16)
        caret == Spaces(cur) \o <<"^">> \o Spaces(19 - cur)
    IN <<Pad(Slice(<<"W", "i", "F", "i", ":", " ">> \o SsidText(ssid), 0, 20), 20),
         Pad(shown, 20), Pad(caret, 20), Pad(<<"S", "e", "l", "=", "O", "K", " ", " ", "L", "=", "B", "a", "c", "k">>, 20)>>

\* LCDUI._write_lines: the first four lines, each padded or cut to the width
\* of the display, become the lines on the display
WriteLines(lines) == [r \in 1..ROWS |-> Pad(lines[r], COLS)]

\* CharLCD.clear(): every cell of the display is a space
ClearedDisplay == [r \in 1..ROWS |-> Pad(<<>>, COLS)]

RowsToWriteAll(lines, cache) == 1..ROWS

\* LCDUI._write_lines, the loop: the rows whose padded line is not the one
\* remembered in _last_lines
RowsToWrite(lines, cache) == {r \in 1..ROWS : lines[r] # cache[r]}

\* LCDUI._write_lines, the body of the loop for the rows it runs on:
\* write_string at the start of the row, and the same line into _last_lines
WriteRows(old, lines, rows) ==
    [r \in 1..ROWS |-> IF r \in rows THEN lines[r] ELSE old[r]]

\* Monitor.__init__ and WeatherWorker.__init__: empty snapshots, the arrivals
\* worker about to start its first cycle
\* a position of the Monitor thread: "top" is the test of "while not
\* self._stop.is_set()", "feed" the stop test before feed i in _poll_once,
\* "fetching" inside fetch_feed for feed i, "wait" the wait loop of _run,
\* "done" after the return
MonAt(pos, i) == [pos |-> pos, feed |-> i]

InitWorkers ==
    /\ mon_feed = 0
    /\ last_error = [i \in StationIdx |-> ""]
    /\ wx = WxInit
    /\ wx_pc = "fetch"
    /\ mon_pc = MonAt("top", 0)
    /\ mon_stop = FALSE
    /\ old_pc = "none"
    /\ mon_req = FALSE

\* LCDUI.__init__
InitLcdui ==
    /\ last_lines = <<<<>>, <<>>, <<>>, <<>>>>
    /\ display = ClearedDisplay
    /\ norm = <<>>
    /\ written = {}
    /\ marquee_offset = 0
    /\ marquee_since = MarqueeTick
    /\ home_weather_offset = 0
    /\ home_weather_since = MarqueeTick
    /\ render_in = [unit |-> "C", arr |-> <<>>, ip |-> <<"-">>]

\* ---------------------------------------------------------------- actions
\* Where a run starts: right after construction (boot), or after the user has
\* walked to a page of the main view or to an entry of the settings menu with
\* LEFT/RIGHT/SELECT/UP/DOWN and the loop has rendered that screen and found
\* the queue empty.
MainPositions(count) ==
    {[boot |-> TRUE, state |-> STATE_MAIN, page |-> 0, sel |-> 0]}
    \cup {[boot |-> FALSE, state |-> STATE_MAIN, page |-> p, sel |-> 0] :
              p \in 0..(count + 1)}

StartPositions(count) ==
    MainPositions(count)
    \cup {[boot |-> FALSE, state |-> STATE_SETTINGS_ROOT, page |-> count + 1,
           sel |-> i] : i \in 0..(SettingsCount - 1)}

InitAt(files, menu, nmcli) ==
    /\ \E s \in files :
          /\ station_count = s.count
          /\ last_page = s.count + 1
          /\ favorite_station_index = s.fav
          /\ leave_buffer_min = s.buf
          /\ \E pos \in (IF menu THEN StartPositions(s.count)
                                ELSE MainPositions(s.count)) :
                /\ state = pos.state
                /\ page = pos.page
                /\ settings_sel = pos.sel
                /\ last_page_seen = IF pos.boot THEN NoneIdx ELSE pos.page
                /\ rendered = ~pos.boot
                /\ since_render = IF pos.boot THEN SlowPeriod ELSE 0
    /\ station_scroll = [i \in StationIdx |-> 0]
    /\ wifi_supported \in nmcli
    /\ wifi_ssids = <<>>
    /\ wifi_sel = 0
    /\ wifi_active = ""
    /\ wifi_target = ""
    /\ wifi_pass = BlankPass
    /\ wifi_cursor = 0
    /\ charset_idx = 0
    /\ wifi_scanning = FALSE
    /\ wifi_scan_status = ""
    /\ main_pc = "loop"
    /\ ev = NoEvent
    /\ state_changed = FALSE
    /\ queue = <<>>
    /\ pushed = 0
    /\ arrivals = [i \in StationIdx |-> 0]
    /\ force_refresh = FALSE
    /\ saved = [fav |-> favorite_station_index, buf |-> leave_buffer_min]
    /\ connect_calls = 0
    /\ scan_pc = "idle"
    /\ td_pc = "web"
    /\ attempted = {}
    /\ InitWorkers
    /\ InitLcdui
    /\ sel_rhs = NoneIdx
    /\ lcd = IF last_page_seen = NoneIdx THEN BlankFrame ELSE RenderNow(U).frame

\* settings.json at construction: any number of stations, no favorite yet
BootSettings == {s \in LoadedSettings : s.fav = NoneIdx /\ s.buf = 0}

Init == InitAt(BootSettings, TRUE, BOOLEAN)

\* Buttons._push, run by a button callback
\* (cap: events the queue holds at most, budget: presses in one run)
Push(k, cap, budget) ==
    /\ pushed < budget
    /\ Len(queue) < cap
    /\ pushed' = pushed + 1
    /\ queue' = Append(queue, [kind |-> k, seq |-> pushed + 1])
    /\ UNCHANGED <<uiVars, loopVars, lcd, arrivals, force_refresh, saved,
                   connect_calls, scan_pc, tdVars, raceVars, monVars, workVars, lcdVars>>

\* Buttons.pop_event
PopEventNewest(q) ==
    IF q = <<>> THEN [ev |-> NoEvent, queue |-> q]
    ELSE [ev |-> q[Len(q)], queue |-> SubSeq(q, 1, Len(q) - 1)]
PopEvent(q) ==
    IF q = <<>> THEN [ev |-> NoEvent, queue |-> q]
    ELSE [ev |-> Head(q), queue |-> Tail(q)]

\* one pass of the body of "while True": read the clock, pop an event, reset
\* the scroll on a new page, dispatch the event, schedule the render.  A SELECT
\* on the password page stops inside connect_wifi; a raised exception leaves
\* the loop.
NeedsLoad ==
    state = STATE_WEB /\ queue # <<>> /\ Head(queue).kind = "SELECT"

\* the event about to be dispatched calls save_app_fields_to_settings
NeedsSave ==
    /\ queue # <<>>
    /\ \/ (state = STATE_BUFFER /\ Head(queue).kind = "SELECT")
       \/ (state = STATE_MAIN /\ IsStationPage(U)
             /\ Head(queue).kind = "SELECT_LONG")

SaveResults == IF NeedsSave THEN BOOLEAN ELSE {TRUE}

\* "wifi_sel = max(0, wifi_sel - 1)" and "wifi_sel = min(len(wifi_ssids) - 1,
\* wifi_sel + 1)" are a read of the shared variables followed by a store; rhs
\* is the value read earlier in this pass, when the scan worker ran between
\* the two
StoreSel(u, rhs) ==
    IF rhs = NoneIdx THEN u
    ELSE [u EXCEPT !.wifi_sel = rhs, !.state_changed = TRUE]

MainPass(d, load) ==
    /\ main_pc = "loop"
    /\ NeedsLoad \/ load = NoLoad
    /\ \E save_ok \in SaveResults :
       LET now == Elapsed(since_render, d)
           p   == PopEvent(queue)
           u1  == ResetScroll(U)
           u2  == StoreSel(Dispatch(u1, p.ev, load, save_ok), sel_rhs)
       IN /\ ev' = p.ev
          /\ queue' = p.queue
          /\ sel_rhs' = NoneIdx
          /\ UNCHANGED <<pushed, tdVars, workVars>>
          /\ IF u2.raised
             THEN /\ Commit(u2)
                  /\ main_pc' = "exited"
                  /\ state_changed' = FALSE
                  /\ rendered' = FALSE
                  /\ since_render' = now
                  /\ UNCHANGED <<lcd, connect_calls>>
             ELSE IF u2.call_connect
             THEN /\ Commit(u2)
                  /\ main_pc' = "connect"
                  /\ connect_calls' = connect_calls + 1
                  /\ state_changed' = FALSE
                  /\ rendered' = FALSE
                  /\ since_render' = now
                  /\ UNCHANGED lcd
             ELSE /\ Finish(u2, now)
                  /\ UNCHANGED connect_calls

\* a pass of the loop, the text on the display left aside (lcd holds what the
\* frame shows)
MainLoop(d, load) == MainPass(d, load) /\ UNCHANGED <<lcdVars, monVars>>

\* connect_wifi returns (ok, message) to the loop, which finishes the SELECT
\* branch and the loop body with the clock value read before the call
ConnectPass(ok) ==
    /\ main_pc = "connect"
    /\ Finish(AfterConnect(U, ok), since_render)
    /\ UNCHANGED <<ev, queue, pushed, connect_calls, tdVars, raceVars, monVars, workVars>>

ConnectReturn(ok) == ConnectPass(ok) /\ UNCHANGED <<lcdVars, monVars>>

\* What a render reads besides the variables of main: temp_unit of the
\* settings, the snapshot of the station shown (or of the favorite) as a list
\* of (route, eta), and the cached IP address.
NoInput == [unit |-> "C", arr |-> <<>>, ip |-> <<"-">>]

\* snapshots of n arrivals: out of order, with an unknown ETA and no route,
\* all unknown, with a four-digit ETA and a long route
ArrivalPatterns ==
    << <<[route |-> <<"A">>, eta |-> 9], [route |-> <<"A">>, eta |-> 3],
         [route |-> <<"C">>, eta |-> 20]>>,
       <<[route |-> <<"A">>, eta |-> 5], [route |-> <<>>, eta |-> NoneIdx],
         [route |-> <<"A">>, eta |-> 3]>>,
       <<[route |-> <<"A">>, eta |-> NoneIdx], [route |-> <<"A">>, eta |-> NoneIdx],
         [route |-> <<"A">>, eta |-> NoneIdx]>>,
       <<[route |-> <<"F", "S", "X", "1">>, eta |-> 1000],
         [route |-> <<"A">>, eta |-> 0], [route |-> <<"A">>, eta |-> 60]>> >>

ArrivalLists(n) ==
    {[i \in 1..n |-> LET a == ArrivalPatterns[p][((i - 1) % 3) + 1]
                     IN <<a.route, a.eta>>] : p \in 1..Len(ArrivalPatterns)}

IpTexts == {<<"-">>, <<"1", "9", "2", ".", "1", "6", "8", ".", "1", "0", "0", ".", "1", "0", "0">>}

RenderInputs(u) ==
    IF u.state = STATE_MAIN /\ u.page = 0
    THEN [unit : {"C", "F"},
          arr  : IF u.favorite_station_index = NoneIdx THEN {<<>>}
                 ELSE ArrivalLists(u.arrivals[u.favorite_station_index]),
          ip   : {<<"-">>}]
    ELSE IF u.state = STATE_MAIN /\ u.page < u.last_page
    THEN [unit : {"C"}, arr : ArrivalLists(u.arrivals[u.page - 1]), ip : {<<"-">>}]
    ELSE IF u.state \in {STATE_IP, STATE_WEB}
    THEN [unit : {"C"}, arr : {<<>>}, ip : IpTexts]
    ELSE {NoInput}

\* render_now with the text of the four lines: m is the state of the two
\* marquee fields (offset and time since the last tick) read at this render
RenderText(u, x, m) ==
    LET keep(lines) == [lines |-> lines, mo |-> m.mo, ms |-> m.ms,
                        ho |-> m.ho, hs |-> m.hs]
    IN IF u.state = STATE_MAIN
       THEN IF u.page = 0
            THEN LET r == RenderHome(wx, x.unit,
                                     LeaveLine(u.favorite_station_index,
                                               u.leave_buffer_min, x.arr),
                                     m.ho, m.hs)
                 IN [lines |-> r.lines, mo |-> m.mo, ms |-> m.ms,
                     ho |-> r.off, hs |-> r.since]
            ELSE IF u.page = u.last_page
            THEN keep(RenderSettingsLanding)
            ELSE LET st_idx == u.page - 1
                     off    == u.station_scroll[st_idx]
                     r == RenderStation(st_idx, Slice(x.arr, off, off + 2), u.page,
                                        u.favorite_station_index # NoneIdx
                                          /\ st_idx = u.favorite_station_index,
                                        m.mo, m.ms)
                 IN [lines |-> r.lines, mo |-> r.off, ms |-> r.since,
                     ho |-> m.ho, hs |-> m.hs]
       ELSE IF u.state = STATE_SETTINGS_ROOT
       THEN keep(RenderSettingsMenu(u.settings_sel))
       ELSE IF u.state = STATE_IP
       THEN keep(RenderIpPage(x.ip))
       ELSE IF u.state = STATE_WIFI_LIST
       THEN keep(RenderWifiListPage(u.wifi_ssids, u.wifi_active, u.wifi_sel,
                                    IF u.wifi_scanning \/ u.wifi_scan_status # ""
                                    THEN u.wifi_scan_status ELSE ""))
       ELSE IF u.state = STATE_WIFI_PASS
       THEN keep(RenderWifiPasswordPage(u.wifi_target, u.wifi_pass, u.wifi_cursor))
       ELSE IF u.state = STATE_WEB
       THEN keep(RenderWebConfigPage(x.ip \o <<":", "8", "0", "8", "8">>))
       ELSE IF u.state = STATE_BUFFER
       THEN keep(RenderLeaveBufferPage(u.leave_buffer_min))
       ELSE keep(RenderAboutPage)

\* the display during a step of the main thread that took d ticks of 20 ms:
\* the time since the last tick of either marquee field grows (from
\* MarqueeTick on every comparison has the same outcome), and when the step
\* rendered, the lines of render_now are written
LcdPass(d) ==
    LET m == [mo |-> marquee_offset,
              ms |-> Min(MarqueeTick, marquee_since + 2 * d),
              ho |-> home_weather_offset,
              hs |-> Min(MarqueeTick, home_weather_since + 2 * d)]
    IN IF rendered'
       THEN \E x \in RenderInputs(U') :
            \E r \in {RenderText(U', x, m)} :
            \E lines \in {WriteLines(r.lines)} :
            \E rows \in {RowsToWrite(lines, last_lines)} :
                  /\ render_in' = x
                  /\ norm' = lines
                  /\ written' = rows
                  /\ display' = WriteRows(display, lines, rows)
                  /\ last_lines' = WriteRows(last_lines, lines, rows)
                  /\ marquee_offset' = r.mo
                  /\ marquee_since' = r.ms
                  /\ home_weather_offset' = r.ho
                  /\ home_weather_since' = r.hs
       ELSE /\ marquee_since' = m.ms
            /\ home_weather_since' = m.hs
            /\ UNCHANGED <<last_lines, marquee_offset, home_weather_offset,
                           display, norm, written, render_in>>

\* a pass of the loop, and the return of connect_wifi, with the text
MainLoopLcd(d, load) == MainPass(d, load) /\ LcdPass(d) /\ UNCHANGED monVars

ConnectReturnLcd(ok, d) == ConnectPass(ok) /\ LcdPass(d) /\ UNCHANGED monVars

\* start_wifi_scan.worker, one statement at a time
ScanGetActive(a) ==
    /\ scan_pc = "get_active"
    /\ wifi_active' = a
    /\ scan_pc' = "scan"
    /\ UNCHANGED <<state, page, station_count, last_page, settings_sel,
                   station_scroll, last_page_seen, favorite_station_index,
                   leave_buffer_min, wifi_supported, wifi_ssids, wifi_sel,
                   wifi_target, wifi_pass, wifi_cursor, charset_idx,
                   wifi_scanning, wifi_scan_status>>
    /\ UNCHANGED <<loopVars, queue, pushed, lcd, arrivals, force_refresh, saved,
                   connect_calls, tdVars, raceVars, monVars, workVars, lcdVars>>

ScanSsids(res) ==
    /\ scan_pc = "scan"
    /\ wifi_ssids' = res
    /\ scan_pc' = "sel"
    /\ UNCHANGED <<state, page, station_count, last_page, settings_sel,
                   station_scroll, last_page_seen, favorite_station_index,
                   leave_buffer_min, wifi_supported, wifi_active, wifi_sel,
                   wifi_target, wifi_pass, wifi_cursor, charset_idx,
                   wifi_scanning, wifi_scan_status>>
    /\ UNCHANGED <<loopVars, queue, pushed, lcd, arrivals, force_refresh, saved,
                   connect_calls, tdVars, raceVars, monVars, workVars, lcdVars>>

ScanSel ==
    /\ scan_pc = "sel"
    /\ wifi_sel' = 0
    /\ scan_pc' = "status"
    /\ UNCHANGED <<state, page, station_count, last_page, settings_sel,
                   station_scroll, last_page_seen, favorite_station_index,
                   leave_buffer_min, wifi_supported, wifi_active, wifi_ssids,
                   wifi_target, wifi_pass, wifi_cursor, charset_idx,
                   wifi_scanning, wifi_scan_status>>
    /\ UNCHANGED <<loopVars, queue, pushed, lcd, arrivals, force_refresh, saved,
                   connect_calls, tdVars, raceVars, monVars, workVars, lcdVars>>

ScanStatus ==
    /\ scan_pc = "status"
    /\ wifi_scan_status' = IF wifi_ssids # <<>> THEN "" ELSE "No networks"
    /\ scan_pc' = "finally"
    /\ UNCHANGED <<state, page, station_count, last_page, settings_sel,
                   station_scroll, last_page_seen, favorite_station_index,
                   leave_buffer_min, wifi_supported, wifi_active, wifi_ssids,
                   wifi_sel, wifi_target, wifi_pass, wifi_cursor, charset_idx,
                   wifi_scanning>>
    /\ UNCHANGED <<loopVars, queue, pushed, lcd, arrivals, force_refresh, saved,
                   connect_calls, tdVars, raceVars, monVars, workVars, lcdVars>>

ScanFinally ==
    /\ scan_pc = "finally"
    /\ wifi_scanning' = FALSE
    /\ scan_pc' = "idle"
    /\ UNCHANGED <<state, page, station_count, last_page, settings_sel,
                   station_scroll, last_page_seen, favorite_station_index,
                   leave_buffer_min, wifi_supported, wifi_active, wifi_ssids,
                   wifi_sel, wifi_target, wifi_pass, wifi_cursor, charset_idx,
                   wifi_scan_status>>
    /\ UNCHANGED <<loopVars, queue, pushed, lcd, arrivals, force_refresh, saved,
                   connect_calls, tdVars, raceVars, monVars, workVars, lcdVars>>

\* Monitor._poll_once publishes a station's snapshot under the lock
MonPublish(i, n) ==
    /\ i < station_count
    /\ arrivals[i] # n
    /\ arrivals' = [arrivals EXCEPT ![i] = n]
    /\ UNCHANGED <<uiVars, loopVars, queue, pushed, lcd, force_refresh, saved,
                   connect_calls, scan_pc, tdVars, raceVars, monVars, workVars, lcdVars>>

\* Monitor._run sees the forced refresh in its wait loop and clears it
MonWake ==
    /\ force_refresh
    /\ force_refresh' = FALSE
    /\ UNCHANGED <<uiVars, loopVars, queue, pushed, lcd, arrivals, saved,
                   connect_calls, scan_pc, tdVars, raceVars, monVars, workVars, lcdVars>>

\* Monitor._poll_once for one feed, every station having a feed of its own:
\* a fetched feed puts a new snapshot in place under the lock; a
\* requests.RequestException keeps the arrivals and sets last_error; any other
\* exception leaves _poll_once and is dropped by _run, which goes to its wait
\* loop.  mon_feed is the station whose feed is next, NoneIdx in the wait loop.
MonFetch(outcome, n) ==
    /\ mon_feed # NoneIdx
    /\ LET i == mon_feed
           next == IF i + 1 < station_count THEN i + 1 ELSE NoneIdx
       IN CASE outcome = "ok" ->
                 /\ arrivals' = [arrivals EXCEPT ![i] = n]
                 /\ last_error' = [last_error EXCEPT ![i] = ""]
                 /\ mon_feed' = next
            [] outcome = "request_error" ->
                 /\ last_error' = [last_error EXCEPT ![i] = "Fetch error"]
                 /\ mon_feed' = next
                 /\ UNCHANGED arrivals
            [] OTHER ->
                 /\ mon_feed' = NoneIdx
                 /\ UNCHANGED <<arrivals, last_error>>
    /\ UNCHANGED <<uiVars, loopVars, queue, pushed, lcd, force_refresh, saved,
                   connect_calls, scan_pc, tdVars, raceVars, monVars, wx, wx_pc, lcdVars>>

\* Monitor._run: the poll interval is over, the next cycle starts
MonNextCycle ==
    /\ mon_feed = NoneIdx
    /\ mon_feed' = 0
    /\ UNCHANGED <<uiVars, loopVars, envVars, tdVars, raceVars, monVars, last_error, wx, wx_pc,
                   lcdVars>>

\* WeatherWorker._refresh_once: a fetched snapshot replaces the old one under
\* the lock, any exception is dropped; the worker then waits refresh_s
WeatherRefresh(ok, snap) ==
    /\ wx_pc = "fetch"
    /\ wx' = IF ok THEN snap ELSE wx
    /\ wx_pc' = "wait"
    /\ UNCHANGED <<uiVars, loopVars, envVars, tdVars, raceVars, monVars, mon_feed, last_error,
                   lcdVars>>

\* WeatherWorker._run: the wait is over, the next refresh starts
WeatherNextCycle ==
    /\ wx_pc = "wait"
    /\ wx_pc' = "fetch"
    /\ UNCHANGED <<uiVars, loopVars, envVars, tdVars, raceVars, monVars, mon_feed, last_error, wx,
                   lcdVars>>

\* KeyboardInterrupt reaches the main thread in the loop body (or inside
\* connect_wifi): "except KeyboardInterrupt: return 0", then the finally block
Interrupt ==
    /\ main_pc \in {"loop", "connect"}
    /\ main_pc' = "interrupted"
    /\ UNCHANGED <<uiVars, ev, state_changed, since_render, rendered, envVars,
                   tdVars, raceVars, monVars, workVars, lcdVars>>

\* The finally block of main(), one call at a time.  It runs when the loop was
\* left by KeyboardInterrupt or by an exception.  ok is false when the call
\* raises an Exception.
TeardownSteps == {"web", "weather", "mon", "lcd"}
InTeardown == main_pc \in {"interrupted", "exited"}

\* websrv.stop(), first statement of the inner try; "except Exception: pass"
\* leaves the try block
WebStop(ok) ==
    /\ InTeardown /\ td_pc = "web"
    /\ attempted' = attempted \cup {"web"}
    /\ td_pc' = IF ok THEN "weather" ELSE "mon"
    /\ UNCHANGED <<uiVars, loopVars, envVars, raceVars, monVars, workVars, lcdVars>>

\* weather.stop() sets the stop event
WeatherStop ==
    /\ InTeardown /\ td_pc = "weather"
    /\ attempted' = attempted \cup {"weather"}
    /\ td_pc' = "mon"
    /\ UNCHANGED <<uiVars, loopVars, envVars, raceVars, monVars, workVars, lcdVars>>

\* mon.stop(), outside any try: an exception leaves main()
\* (Monitor.stop sets _stop and _force_refresh, then joins for at most 2 s)
MonStop(ok) ==
    /\ InTeardown /\ td_pc = "mon"
    /\ attempted' = attempted \cup {"mon"}
    /\ td_pc' = IF ok THEN "lcd" ELSE "done"
    /\ mon_stop' = TRUE
    /\ force_refresh' = TRUE
    /\ UNCHANGED <<uiVars, loopVars, queue, pushed, lcd, arrivals, saved,
                   connect_calls, scan_pc, raceVars, mon_pc, old_pc, mon_req,
                   workVars, lcdVars>>

\* lcd.close(): clear the display, then close it
LcdClose(ok) ==
    /\ InTeardown /\ td_pc = "lcd"
    /\ attempted' = attempted \cup {"lcd"}
    /\ td_pc' = "done"
    /\ lcd' = IF ok THEN BlankFrame ELSE lcd
    /\ display' = IF ok THEN ClearedDisplay ELSE display
    /\ UNCHANGED <<uiVars, loopVars, queue, pushed, arrivals, force_refresh,
                   saved, connect_calls, scan_pc, raceVars, monVars, workVars,
                   last_lines, marquee_offset, marquee_since,
                   home_weather_offset, home_weather_since, norm, written,
                   render_in>>

\* The whole UI with the Wi-Fi scan worker, on a loop whose passes are at least
\* 0.5 s apart.
Next ==
    \/ \E k \in Kinds : Push(k, MaxQueue, MaxEvents)
    \/ \E d \in SlowPasses, load \in LoadResults : MainLoop(d, load)
    \/ \E ok \in BOOLEAN : ConnectReturn(ok)
    \/ \E a \in ActiveSsids : ScanGetActive(a)
    \/ \E res \in ScanResults : ScanSsids(res)
    \/ ScanSel
    \/ ScanStatus
    \/ ScanFinally

Spec == Init /\ [][Next]_vars

\* The main view with the arrivals monitor publishing and a queue that holds
\* two events, on a device without nmcli.
InitView == InitAt(BootSettings, FALSE, {FALSE})

NextView ==
    \/ \E k \in Kinds : Push(k, MaxQueueView, MaxEventsView)
    \/ \E d \in SlowPasses, load \in LoadResults : MainLoop(d, load)
    \/ \E i \in StationIdx, n \in ArrivalCounts : MonPublish(i, n)
    \/ MonWake

SpecView == InitView /\ [][NextView]_vars

\* The render scheduler: passes of the loop 60 ms or 0.5 s apart, every screen
\* one button press away, the Wi-Fi scan worker running.
NextSched ==
    \/ \E k \in Kinds : Push(k, MaxQueue, MaxEventsSched)
    \/ \E d \in Durations, load \in LoadResults : MainLoop(d, load)
    \/ \E a \in ActiveSsids : ScanGetActive(a)
    \/ \E res \in ScanResults : ScanSsids(res)
    \/ ScanSel
    \/ ScanStatus
    \/ ScanFinally

SpecSched == Init /\ [][NextSched]_vars

\* The password page.  A run starts after the user has opened the password
\* page of a scanned network, moved the cursor with RIGHT and put a character
\* at the cursor with UP or DOWN.
PassCursors == {0, PassLen - 2, PassLen - 1}
PassChars   == {1, CharsetLen - 1}

InitPass ==
    /\ \E s \in {f \in BootSettings : f.count = 1} :
          /\ station_count = s.count
          /\ last_page = s.count + 1
          /\ page = s.count + 1
          /\ last_page_seen = s.count + 1
          /\ favorite_station_index = s.fav
          /\ leave_buffer_min = s.buf
    /\ state = STATE_WIFI_PASS
    /\ settings_sel = 1
    /\ station_scroll = [i \in StationIdx |-> 0]
    /\ wifi_supported = TRUE
    /\ wifi_ssids \in ScanResults \ {<<>>}
    /\ wifi_sel \in 0..(Len(wifi_ssids) - 1)
    /\ wifi_active \in ActiveSsids
    /\ wifi_target = wifi_ssids[wifi_sel + 1]
    /\ wifi_cursor \in PassCursors
    /\ charset_idx \in PassChars
    /\ wifi_pass = [BlankPass EXCEPT ![wifi_cursor + 1] = charset_idx]
    /\ wifi_scanning = FALSE
    /\ wifi_scan_status = ""
    /\ main_pc = "loop"
    /\ ev = NoEvent
    /\ state_changed = FALSE
    /\ since_render = 0
    /\ rendered = TRUE
    /\ queue = <<>>
    /\ pushed = 0
    /\ arrivals = [i \in StationIdx |-> 0]
    /\ force_refresh = FALSE
    /\ saved = [fav |-> favorite_station_index, buf |-> leave_buffer_min]
    /\ connect_calls = 0
    /\ scan_pc = "idle"
    /\ td_pc = "web"
    /\ attempted = {}
    /\ InitWorkers
    /\ InitLcdui
    /\ sel_rhs = NoneIdx
    /\ lcd = RenderNow(U).frame

SpecPass == InitPass /\ [][Next]_vars

\* Shutdown: the loop on a device without nmcli, interrupted at any pass, and
\* the finally block.
InitDown == InitAt(BootSettings, TRUE, {FALSE})

NextDown ==
    \/ \E k \in Kinds : Push(k, MaxQueue, MaxEventsSched)
    \/ \E d \in SlowPasses, load \in LoadResults : MainLoop(d, load)
    \/ Interrupt
    \/ \E ok \in BOOLEAN : WebStop(ok)
    \/ WeatherStop
    \/ \E ok \in BOOLEAN : MonStop(ok)
    \/ \E ok \in BOOLEAN : LcdClose(ok)

SpecDown == InitDown /\ [][NextDown]_vars

\* The text on the display: the loop with render_now writing the four lines,
\* started on any screen the buttons lead to, with the snapshots that screen
\* reads and the display as the first render of that screen leaves it.
LcdBuffers == {0, 10, LeaveBufferMax}
LcdPasses == {FastPeriod, SlowPeriod}   \* ticks a pass of the loop takes

LcdPositions(count) ==
    {[state |-> STATE_MAIN, page |-> p, sel |-> 0] : p \in 0..(count + 1)}
    \cup {[state |-> STATE_SETTINGS_ROOT, page |-> count + 1, sel |-> i] :
              i \in 0..(SettingsCount - 1)}
    \cup {[state |-> STATE_IP, page |-> count + 1, sel |-> 0],
          [state |-> STATE_WIFI_LIST, page |-> count + 1, sel |-> 1],
          [state |-> STATE_WIFI_PASS, page |-> count + 1, sel |-> 1],
          [state |-> STATE_WEB, page |-> count + 1, sel |-> 2],
          [state |-> STATE_BUFFER, page |-> count + 1, sel |-> 3],
          [state |-> STATE_ABOUT, page |-> count + 1, sel |-> 4]}

InitLcdAt(positions, favs, buffers, counts, snaps) ==
    /\ station_count = MaxStations
    /\ last_page = station_count + 1
    /\ \E pos \in positions :
          /\ state = pos.state
          /\ page = pos.page
          /\ settings_sel = pos.sel
          /\ last_page_seen = pos.page
    \* a favorite where it shows: the leave line and the heart
    /\ favorite_station_index \in
          (IF state = STATE_MAIN /\ page < last_page THEN favs ELSE {NoneIdx})
    /\ leave_buffer_min \in
          (IF \/ state = STATE_BUFFER
              \/ (state = STATE_MAIN /\ page = 0
                    /\ favorite_station_index # NoneIdx)
           THEN buffers ELSE {0})
    \* arrivals for the station the screen reads
    /\ \E n \in counts :
          arrivals = [i \in StationIdx |->
                        IF \/ (state = STATE_MAIN /\ page = i + 1)
                           \/ (state = STATE_MAIN /\ page = 0
                                 /\ favorite_station_index = i)
                        THEN n ELSE 0]
    /\ wx \in (IF state = STATE_MAIN /\ page = 0
                    /\ favorite_station_index = NoneIdx
               THEN snaps ELSE {WxInit})
    /\ wx_pc = "wait"
    /\ mon_feed = NoneIdx
    /\ last_error = [i \in StationIdx |-> ""]
    /\ station_scroll = [i \in StationIdx |-> 0]
    /\ wifi_supported = TRUE
    /\ IF state \in {STATE_WIFI_LIST, STATE_WIFI_PASS}
       THEN /\ wifi_ssids \in
                 (IF state = STATE_WIFI_PASS THEN ScanResults \ {<<>>}
                  ELSE ScanResults)
            /\ wifi_sel \in 0..Max(0, Len(wifi_ssids) - 1)
            /\ wifi_active \in ActiveSsids
            /\ wifi_scan_status = IF wifi_ssids # <<>> THEN "" ELSE "No networks"
       ELSE /\ wifi_ssids = <<>>
            /\ wifi_sel = 0
            /\ wifi_active = ""
            /\ wifi_scan_status = ""
    /\ IF state = STATE_WIFI_PASS
       THEN /\ wifi_target = wifi_ssids[wifi_sel + 1]
            /\ wifi_cursor \in {0, PassLen - 1}
            /\ charset_idx = CharsetLen - 1
            /\ wifi_pass = [BlankPass EXCEPT ![wifi_cursor + 1] = charset_idx]
       ELSE /\ wifi_target = ""
            /\ wifi_cursor = 0
            /\ charset_idx = 0
            /\ wifi_pass = BlankPass
    /\ wifi_scanning = FALSE
    /\ main_pc = "loop"
    /\ ev = NoEvent
    /\ state_changed = FALSE
    /\ since_render = 0
    /\ rendered = TRUE
    /\ queue = <<>>
    /\ pushed = 0
    /\ force_refresh = FALSE
    /\ saved = [fav |-> favorite_station_index, buf |-> leave_buffer_min]
    /\ connect_calls = 0
    /\ scan_pc = "idle"
    /\ td_pc = "web"
    /\ attempted = {}
    /\ sel_rhs = NoneIdx
    /\ mon_pc = MonAt("top", 0)
    /\ mon_stop = FALSE
    /\ old_pc = "none"
    /\ mon_req = FALSE
    /\ lcd = RenderNow(U).frame
    /\ \E x \in RenderInputs(U) :
          LET r == RenderText(U, x, [mo |-> 0, ms |-> MarqueeTick,
                                     ho |-> 0, hs |-> MarqueeTick])
          IN /\ render_in = x
             /\ last_lines = WriteLines(r.lines)
             /\ display = WriteLines(r.lines)
             /\ norm = WriteLines(r.lines)
             /\ written = 1..ROWS
             /\ marquee_offset = r.mo
             /\ marquee_since = r.ms
             /\ home_weather_offset = r.ho
             /\ home_weather_since = r.hs

InitLcd ==
    InitLcdAt(LcdPositions(MaxStations), {NoneIdx, 0}, LcdBuffers, ArrivalCounts,
              WeatherSnaps)

NextLcd ==
    \/ \E k \in Kinds : Push(k, MaxQueue, MaxEventsLcd)
    \/ \E d \in SlowPasses, load \in LoadResults : MainLoopLcd(d, load)
    \/ \E ok \in BOOLEAN, d \in SlowPasses : ConnectReturnLcd(ok, d)
    \/ \E a \in ActiveSsids : ScanGetActive(a)
    \/ \E res \in ScanResults : ScanSsids(res)
    \/ ScanSel
    \/ ScanStatus
    \/ ScanFinally

SpecLcd == InitLcd /\ [][NextLcd]_vars

\* The two marquee fields: the pages of the main carousel with empty
\* snapshots, passes of the loop shorter and longer than a tick of the marquee.
InitMarquee ==
    InitLcdAt({pos \in LcdPositions(MaxStations) : pos.state = STATE_MAIN},
              {NoneIdx}, {0}, {0}, {WxClear, WxPartlyCloudy})

NextMarquee ==
    \/ \E k \in Kinds : Push(k, MaxQueue, MaxEventsLcd)
    \/ \E d \in LcdPasses, load \in LoadResults : MainLoopLcd(d, load)

SpecMarquee == InitMarquee /\ [][NextMarquee]_vars

\* The background workers on their own: polling cycles of the arrivals worker
\* and refreshes of the weather worker, with every outcome of a fetch.
InitWork == InitAt(BootSettings, FALSE, {FALSE})

NextWork ==
    \/ \E o \in FetchOutcomes, n \in ArrivalCounts : MonFetch(o, n)
    \/ MonNextCycle
    \/ \E ok \in BOOLEAN, snap \in WeatherSnaps : WeatherRefresh(ok, snap)
    \/ WeatherNextCycle

SpecWork == InitWork /\ [][NextWork]_vars

\* ------------------------------------------------ the Monitor thread
\* The events of main() that reach the Monitor: SELECT on the home page or a
\* station page calls mon.force_refresh(); a successful reload runs
\* "mon.stop(); mon = Monitor(settings); mon.start()".
IsRequest ==
    /\ state = STATE_MAIN /\ page # last_page
    /\ queue # <<>> /\ Head(queue).kind = "SELECT"

\* Monitor.stop: "self._thread.join(timeout=2.0)".  A thread that is not
\* inside fetch_feed sees _stop at its next test and returns within the
\* timeout; a thread inside fetch_feed returns in time or is still fetching
\* when join gives up.
JoinTimeout(pc) ==
    IF pc.pos = "fetching" THEN {"done", "fetching"} ELSE {"done"}

MonPass(load) ==
    IF NeedsLoad /\ load.ok
    THEN /\ old_pc' \in (IF old_pc = "fetching" THEN {"fetching"}
                                                 ELSE JoinTimeout(mon_pc))
         /\ mon_pc' = MonAt("top", 0)
         /\ mon_stop' = FALSE
         /\ UNCHANGED mon_req
    ELSE IF IsRequest
    THEN /\ mon_req' = TRUE
         /\ UNCHANGED <<mon_pc, mon_stop, old_pc>>
    ELSE UNCHANGED monVars

MainLoopMon(d, load) ==
    MainPass(d, load) /\ MonPass(load) /\ UNCHANGED lcdVars

\* Monitor._run: "while not self._stop.is_set()", then cycle_start and
\* _poll_once
MonTop ==
    /\ mon_pc.pos = "top"
    /\ IF mon_stop
       THEN mon_pc' = MonAt("done", 0) /\ UNCHANGED mon_req
       ELSE mon_pc' = MonAt("feed", 0) /\ mon_req' = FALSE
    /\ UNCHANGED <<uiVars, loopVars, envVars, tdVars, raceVars, mon_stop,
                   old_pc, workVars, lcdVars>>

\* Monitor._poll_once: "if self._stop.is_set(): return" before each feed, then
\* the call of fetch_feed
NextTestSkipped(stop, i) == MonAt("fetching", i)
NextTest(stop, i) ==
    IF stop THEN MonAt("wait", 0) ELSE MonAt("fetching", i)

MonFeedTest ==
    /\ mon_pc.pos = "feed"
    /\ mon_pc' = NextTest(mon_stop, mon_pc.feed)
    /\ UNCHANGED <<uiVars, loopVars, envVars, tdVars, raceVars, mon_stop,
                   old_pc, mon_req, workVars, lcdVars>>

\* fetch_feed returns or raises; the snapshots of the feed's station are
\* replaced under the lock; the next feed follows, or the wait loop
MonFetchReturn(outcome, n) ==
    /\ mon_pc.pos = "fetching"
    /\ LET i == mon_pc.feed
           next == IF i + 1 < station_count THEN MonAt("feed", i + 1)
                                            ELSE MonAt("wait", 0)
       IN CASE outcome = "ok" ->
                 /\ arrivals' = [arrivals EXCEPT ![i] = n]
                 /\ last_error' = [last_error EXCEPT ![i] = ""]
                 /\ mon_pc' = next
            [] outcome = "request_error" ->
                 /\ last_error' = [last_error EXCEPT ![i] = "Fetch error"]
                 /\ mon_pc' = next
                 /\ UNCHANGED arrivals
            [] OTHER ->
                 /\ mon_pc' = MonAt("wait", 0)
                 /\ UNCHANGED <<arrivals, last_error>>
    /\ UNCHANGED <<uiVars, loopVars, queue, pushed, lcd, force_refresh, saved,
                   connect_calls, scan_pc, tdVars, raceVars, mon_stop, old_pc,
                   mon_req, mon_feed, wx, wx_pc, lcdVars>>

\* the wait loop of _run: "if self._stop.is_set(): return", then "if
\* self._force_refresh.is_set(): self._force_refresh.clear(); break"
WaitTestNoBreak(stop, force) ==
    IF stop THEN [pc |-> MonAt("done", 0), force |-> force]
    ELSE [pc |-> MonAt("wait", 0), force |-> FALSE]
WaitTest(stop, force) ==
    IF stop THEN [pc |-> MonAt("done", 0), force |-> force]
    ELSE [pc |-> MonAt("top", 0), force |-> FALSE]

MonWaitTest ==
    /\ mon_pc.pos = "wait"
    /\ mon_stop \/ force_refresh
    /\ mon_pc' = WaitTest(mon_stop, force_refresh).pc
    /\ force_refresh' = WaitTest(mon_stop, force_refresh).force
    /\ UNCHANGED <<uiVars, loopVars, queue, pushed, lcd, arrivals, saved,
                   connect_calls, scan_pc, tdVars, raceVars, mon_stop, old_pc,
                   mon_req, workVars, lcdVars>>

\* the wait loop of _run: "if remaining <= 0: break", the poll interval being
\* over (the two tests before it found nothing)
MonDeadline ==
    /\ mon_pc.pos = "wait"
    /\ ~mon_stop /\ ~force_refresh
    /\ mon_pc' = MonAt("top", 0)
    /\ UNCHANGED <<uiVars, loopVars, envVars, tdVars, raceVars, mon_stop,
                   old_pc, mon_req, workVars, lcdVars>>

\* the thread of the replaced Monitor comes out of fetch_feed, finds _stop
\* set and returns
OldFetchReturn ==
    /\ old_pc = "fetching"
    /\ old_pc' = "done"
    /\ UNCHANGED <<uiVars, loopVars, envVars, tdVars, raceVars, mon_pc,
                   mon_stop, mon_req, workVars, lcdVars>>

\* The arrivals worker with the loop: a run starts on the home page, on a
\* station page or on the web-config page, rendered, on a device without
\* nmcli; the loop reloads, is interrupted and runs its finally block.
MonPositions ==
    {[state |-> STATE_MAIN, page |-> 0, sel |-> 0],
     [state |-> STATE_MAIN, page |-> 1, sel |-> 0],
     [state |-> STATE_WEB, page |-> 0, sel |-> 2]}

InitMon ==
    /\ \E s \in BootSettings :
          /\ station_count = s.count
          /\ last_page = s.count + 1
          /\ favorite_station_index = s.fav
          /\ leave_buffer_min = s.buf
    /\ \E pos \in MonPositions :
          /\ state = pos.state
          /\ page = IF pos.state = STATE_MAIN THEN pos.page ELSE last_page
          /\ settings_sel = pos.sel
    /\ last_page_seen = page
    /\ station_scroll = [i \in StationIdx |-> 0]
    /\ wifi_supported = FALSE
    /\ wifi_ssids = <<>>
    /\ wifi_sel = 0
    /\ wifi_active = ""
    /\ wifi_target = ""
    /\ wifi_pass = BlankPass
    /\ wifi_cursor = 0
    /\ charset_idx = 0
    /\ wifi_scanning = FALSE
    /\ wifi_scan_status = ""
    /\ main_pc = "loop"
    /\ ev = NoEvent
    /\ state_changed = FALSE
    /\ since_render = 0
    /\ rendered = TRUE
    /\ queue = <<>>
    /\ pushed = 0
    /\ arrivals = [i \in StationIdx |-> 0]
    /\ force_refresh = FALSE
    /\ saved = [fav |-> favorite_station_index, buf |-> leave_buffer_min]
    /\ connect_calls = 0
    /\ scan_pc = "idle"
    /\ td_pc = "web"
    /\ attempted = {}
    /\ InitWorkers
    /\ InitLcdui
    /\ sel_rhs = NoneIdx
    /\ lcd = RenderNow(U).frame

\* the buttons pressed, what a reload finds in settings.json (the station list
\* changed by the web page, or a file that does not load), and how fetch_feed
\* ends
MonKinds == {"SELECT", "LEFT"}
MonLoads == {l \in LoadResults : l.ok => l.s \in BootSettings}
MonOutcomes == {"ok", "other_error"}

NextMon ==
    \/ \E k \in MonKinds : Push(k, MaxQueue, MaxEventsMon)
    \/ \E d \in SlowPasses, load \in MonLoads : MainLoopMon(d, load)
    \/ Interrupt
    \/ \E ok \in BOOLEAN : WebStop(ok)
    \/ WeatherStop
    \/ \E ok \in BOOLEAN : MonStop(ok)
    \/ \E ok \in BOOLEAN : LcdClose(ok)
    \/ MonTop
    \/ MonFeedTest
    \/ \E o \in MonOutcomes : MonFetchReturn(o, MaxArrivals)
    \/ MonWaitTest
    \/ MonDeadline
    \/ OldFetchReturn

SpecMon == InitMon /\ [][NextMon]_vars

\* the same with a scheduler that lets the Monitor thread run, and with
\* fetch_feed returning or raising (requests.get has a timeout); nothing is
\* assumed about the poll interval running out
MonFairness ==
    /\ WF_vars(MonTop)
    /\ WF_vars(MonFeedTest)
    /\ WF_vars(\E o \in MonOutcomes : MonFetchReturn(o, MaxArrivals))
    /\ WF_vars(MonWaitTest)

SpecMonFair == SpecMon /\ MonFairness

\* a pass of the loop, and the return of connect_wifi into one
LoopPass == \E d \in Durations, load \in LoadResults : MainLoop(d, load)
Consumes(k) == ev' # ev /\ ev'.kind = k
MainThreadStep == LoopPass \/ \E ok \in BOOLEAN : ConnectReturn(ok)

\* ------------------------------------------------------------------ claims

\* The transition table of the specification: the (state, event) pairs for
\* which a transition is defined.
TableDefines(st, pg, count, k) ==
    CASE st = STATE_MAIN ->
           \/ k \in {"LEFT", "RIGHT", "SELECT"}
           \/ (k \in {"UP", "DOWN", "SELECT_LONG"} /\ 1 <= pg /\ pg <= count)
      [] st = STATE_SETTINGS_ROOT -> k \in {"LEFT", "UP", "DOWN", "SELECT"}
      [] st \in {STATE_IP, STATE_ABOUT} -> k = "LEFT"
      [] st = STATE_WEB -> k \in {"LEFT", "SELECT"}
      [] st = STATE_BUFFER -> k \in {"LEFT", "UP", "DOWN", "SELECT"}
      [] st = STATE_WIFI_LIST -> k \in {"LEFT", "UP", "DOWN", "SELECT"}
      [] st = STATE_WIFI_PASS -> k \in {"LEFT", "RIGHT", "UP", "DOWN", "SELECT"}
      [] OTHER -> FALSE

\* C1: in every reachable state, dispatching an event for which the table
\* defines no transition (or no event at all) returns every UI variable, the
\* favorite and the leave buffer as they were, with state_changed false, no
\* call of connect_wifi and no exception.
C1_UndefinedEventIsNoOp ==
    \A e \in {NoEvent} \cup {[kind |-> k, seq |-> 1] : k \in Kinds} :
        ~TableDefines(state, page, station_count, e.kind)
            => \A load \in LoadResults, save_ok \in BOOLEAN :
                   Dispatch(U, e, load, save_ok) = U

\* the loop has consumed an undefined event in each of three states
C1_Witness ==
    /\ main_pc = "loop"
    /\ ~state_changed
    /\ \/ (state = STATE_SETTINGS_ROOT /\ ev.kind = "RIGHT")
       \/ (state = STATE_WIFI_LIST /\ ev.kind = "SELECT_LONG")
       \/ (state = STATE_ABOUT /\ ev.kind = "SELECT")

\* C2: page is always within [0, last_page] with last_page = station_count + 1
\* of the loaded station list, and a reload whose new last page is below the
\* current page sets page to the new last page.
C2_PageValid ==
    /\ [](last_page = station_count + 1 /\ 0 <= page /\ page <= last_page)
    /\ [][(state = STATE_WEB /\ Consumes("SELECT") /\ main_pc' = "loop"
            /\ page > station_count' + 1)
           => page' = station_count' + 1]_vars

\* a reload has just shrunk the station list below the page the user was on
C2_Witness ==
    /\ state = STATE_WEB /\ ev.kind = "SELECT" /\ state_changed
    /\ last_page_seen > last_page
    /\ page = last_page

\* C3: in state Main, RIGHT yields page 0 at last_page and page + 1 otherwise,
\* LEFT yields last_page at page 0 and page - 1 otherwise; the state stays
\* Main and state_changed is true.
C3_CircularPages ==
    [][(state = STATE_MAIN /\ main_pc = "loop" /\ ev' # ev
        /\ ev'.kind \in {"LEFT", "RIGHT"})
       => /\ state' = STATE_MAIN
          /\ state_changed'
          /\ page' = IF ev'.kind = "RIGHT"
                     THEN (IF page = last_page THEN 0 ELSE page + 1)
                     ELSE (IF page = 0 THEN last_page ELSE page - 1)]_vars

\* RIGHT has just wrapped from the last page to the home page
C3_Witness ==
    state = STATE_MAIN /\ ev.kind = "RIGHT" /\ state_changed /\ page = 0
    /\ last_page_seen = last_page

\* C4 as stated: every station's stored scroll offset is within
\* [0, max(0, arrivalsCount - 2)] for the current arrivals count, in every
\* reachable state.
C4_StoredOffsetAlwaysInRange ==
    \A i \in 0..(station_count - 1) :
        0 <= station_scroll[i] /\ station_scroll[i] <= Max(0, arrivals[i] - 2)

\* C4 (amended): a stored scroll offset is never negative, every station frame
\* on the display has its window offset within [0, max(0, n - 2)] for the
\* arrivals count n read by the render that drew it, and a pass of the loop
\* that renders a station page leaves the stored offset of that station equal
\* to the displayed one and within the range for the current arrivals count.
C4_OffsetClampedAtRender ==
    /\ [](\A i \in StationIdx : station_scroll[i] >= 0)
    /\ [](lcd.screen = "station"
            => 0 <= lcd.off /\ lcd.off <= Max(0, lcd.n - 2))
    /\ [][(LoopPass /\ rendered' /\ state' = STATE_MAIN
           /\ 1 <= page' /\ page' <= station_count')
          => /\ lcd'.screen = "station"
             /\ lcd'.n = arrivals'[page' - 1]
             /\ station_scroll'[page' - 1] = lcd'.off
             /\ lcd'.off <= Max(0, arrivals'[page' - 1] - 2)]_vars

\* DOWN on a station page with three arrivals has moved the window to offset 1
C4_Witness ==
    /\ state = STATE_MAIN /\ ev.kind = "DOWN" /\ rendered
    /\ lcd.screen = "station" /\ lcd.n = MaxArrivals /\ lcd.off = 1
    /\ station_scroll[page - 1] = 1

\* C5: after the pass that consumed a LEFT or RIGHT landing on a station page,
\* the display shows that station's page with the arrivals window at offset 0.
C5_FirstFrameAtTop ==
    (/\ main_pc = "loop" /\ state = STATE_MAIN /\ state_changed
     /\ ev.kind \in {"LEFT", "RIGHT"}
     /\ 1 <= page /\ page <= station_count)
        => (lcd.screen = "station" /\ lcd.page = page /\ lcd.off = 0)

\* C6: the queue holds the pushed events that are not yet consumed, oldest
\* first, each once (events are numbered in push order); a pass of the loop
\* consumes at most one event, the oldest one; and the display shows the screen
\* of the state and page the last consumed event led to.
ScreenOf(st, pg, last) ==
    IF st = STATE_MAIN
    THEN (IF pg = 0 THEN "home" ELSE IF pg = last THEN "landing" ELSE "station")
    ELSE st

C6_EventsOnceInOrder ==
    /\ [](\A i \in 1..Len(queue) : queue[i].seq = pushed - Len(queue) + i)
    /\ [](ev.seq <= pushed - Len(queue))
    /\ [](lcd # BlankFrame
            => lcd.screen = ScreenOf(state, page, last_page) /\ lcd.page = page)
    /\ [][/\ Len(queue') >= Len(queue) - 1
          /\ (ev' # ev /\ ev' # NoEvent)
               => /\ ev'.seq = pushed - Len(queue) + 1
                  /\ ev' = Head(queue)
                  /\ queue' = Tail(queue)
          /\ Len(queue') < Len(queue) => ev' = Head(queue)]_vars

\* two events were waiting, and the loop has consumed the older one and moved
\* to its page while the younger one still waits
C6_Witness ==
    /\ Len(queue) = 1 /\ ev.seq = 1 /\ queue[1].seq = 2 /\ pushed = 2
    /\ ev.kind = "RIGHT" /\ queue[1].kind = "LEFT"
    /\ lcd.page = page /\ rendered

\* C7: a pass of the loop that ends with state_changed true has rendered.
C7_ChangedAlwaysRenders ==
    (main_pc = "loop" /\ state_changed) => (rendered /\ since_render = 0)

\* an event changed the state and the pass rendered
C7_Witness ==
    main_pc = "loop" /\ state_changed /\ rendered /\ ev.kind = "UP"
    /\ state = STATE_SETTINGS_ROOT

\* the minimum period of the specification: short on a station page of Main
ClaimPeriod(st, pg, count) ==
    IF st = STATE_MAIN /\ 1 <= pg /\ pg <= count THEN FastPeriod ELSE SlowPeriod

\* C8: a pass of the loop that ends with state_changed false renders exactly
\* when the time since the last render has reached the minimum period of the
\* screen or the state is WifiList with a scan in progress; the time of the
\* last render becomes the time of this pass exactly when it renders.
C8_PeriodicRender ==
    [][\A d \in Durations :
         ((\E load \in LoadResults : MainLoop(d, load))
          /\ main_pc' = "loop" /\ ~state_changed')
         => /\ rendered' <=>
                 \/ Elapsed(since_render, d)
                        >= ClaimPeriod(state', page', station_count')
                 \/ (state' = STATE_WIFI_LIST /\ wifi_scanning')
            /\ rendered' <=> (since_render' = 0)
            /\ ~rendered' => (lcd' = lcd /\ since_render' = Elapsed(since_render, d))
      ]_vars

\* an idle pass on the Wi-Fi list rendered because a scan was in progress
C8_Witness ==
    /\ main_pc = "loop" /\ ~state_changed /\ rendered /\ ev = NoEvent
    /\ state = STATE_WIFI_LIST /\ wifi_scanning /\ lcd.status = "Scanning..."

\* C9: while connect_wifi is in progress the loop can make a pass.
C9_LoopRunsDuringConnect ==
    (connect_calls > 0 /\ main_pc = "connect") => ENABLED LoopPass

\* C10: when connect_wifi returns, the pass ends in WifiList having rendered
\* the Wi-Fi list with the status "Connected" or "Failed" according to the
\* result, and connect_wifi is not called again.
C10_ConnectResultShown ==
    [][\A ok \in BOOLEAN :
         ConnectReturn(ok)
         => /\ state' = STATE_WIFI_LIST
            /\ rendered'
            /\ lcd'.screen = STATE_WIFI_LIST
            /\ lcd'.status = (IF ok THEN "Connected" ELSE "Failed")
            /\ connect_calls' = connect_calls]_vars

\* the Wi-Fi session state of the UI
WifiSession ==
    <<wifi_ssids, wifi_sel, wifi_active, wifi_scan_status, wifi_scanning>>

\* C11: the Wi-Fi session state (networks, selected index, active SSID,
\* status, scanning) and the per-station scroll offsets change only in steps
\* of the main loop thread.
C11_OnlyMainLoopWrites ==
    [][(WifiSession' # WifiSession \/ station_scroll' # station_scroll)
       => MainThreadStep]_vars

\* C12: a step of a background worker that changes a field of the Wi-Fi scan
\* result makes the whole result visible at once: after the step the scan is
\* no longer in progress, the selection is 0 and the status is the one of the
\* published network list.
C12_ScanPublishedAtomically ==
    [][(WifiSession' # WifiSession /\ ~MainThreadStep)
       => /\ ~wifi_scanning'
          /\ wifi_sel' = 0
          /\ wifi_scan_status' = (IF wifi_ssids' # <<>> THEN "" ELSE "No networks")
      ]_vars

\* C13: a pass that consumes SELECT in WebConfigInfo while load_settings
\* raises leaves the loop running in the same state, with the station list,
\* the page, the favorite, the leave buffer and the arrivals snapshots
\* unchanged.
C13_FailedReloadKeepsLoop ==
    [][(NeedsLoad /\ \E d \in Durations : MainLoop(d, NoLoad))
       => /\ main_pc' = "loop"
          /\ state' = STATE_WEB
          /\ UNCHANGED <<station_count, last_page, page,
                         favorite_station_index, leave_buffer_min, arrivals>>
      ]_vars

\* C14: a pass that consumes SELECT in LeaveBufferEdit or SELECT_LONG on a
\* station page leaves the loop running in one of the defined states, whether
\* or not saving the settings succeeds.
C14_FailedSaveKeepsLoop ==
    [][(NeedsSave /\ LoopPass) => (main_pc' = "loop" /\ state' \in States)]_vars

\* C15: when the finally block is over, every teardown step (web server,
\* weather worker, arrivals worker, display) has been attempted.
C15_EveryTeardownStepAttempted ==
    td_pc = "done" => attempted = TeardownSteps

\* C16: every step that enters WifiList from another state leaves the
\* selection at 0 and the network list empty.
C16_EntryResetsList ==
    [][(state # STATE_WIFI_LIST /\ state' = STATE_WIFI_LIST)
       => (wifi_sel' = 0 /\ wifi_ssids' = <<>>)]_vars

\* C17: every step that enters WifiPasswordEntry leaves the password buffer
\* at 16 blanks, the cursor at 0, the charset index at 0 and the target SSID
\* equal to the network at the selected index.
C17_EntryResetsPassword ==
    [][(state # STATE_WIFI_PASS /\ state' = STATE_WIFI_PASS)
       => /\ wifi_pass' = BlankPass
          /\ wifi_cursor' = 0
          /\ charset_idx' = 0
          /\ wifi_sel < Len(wifi_ssids)
          /\ wifi_target' = wifi_ssids[wifi_sel + 1]]_vars

\* the password page was opened again after an entry that had left a
\* character in the buffer
C17_Witness ==
    /\ state = STATE_WIFI_PASS /\ ev.kind = "SELECT" /\ state_changed
    /\ wifi_pass = BlankPass /\ wifi_cursor = 0 /\ charset_idx = 0
    /\ pushed >= 2

\* C18: in every reachable state the password cursor is within [0, 15] and
\* the password buffer has exactly 16 characters, each one of the charset.
C18_CursorAndBufferBounded ==
    /\ 0 <= wifi_cursor /\ wifi_cursor <= 15
    /\ Len(wifi_pass) = 16
    /\ DOMAIN wifi_pass = 1..16
    /\ \A i \in 1..16 : wifi_pass[i] \in 0..(CharsetLen - 1)

\* RIGHT was consumed with the cursor on the last position, after a character
\* had been put there
C18_Witness ==
    /\ state = STATE_WIFI_PASS /\ ev.kind = "RIGHT" /\ state_changed
    /\ wifi_cursor = PassLen - 1 /\ wifi_pass[PassLen] # 0

\* C19: a pass that consumes RIGHT in WifiPasswordEntry with the cursor at 15
\* leaves the cursor, the password buffer and the charset index unchanged.
C19_RightAtEndIsNoOp ==
    [][(state = STATE_WIFI_PASS /\ wifi_cursor = PassLen - 1
        /\ main_pc = "loop" /\ Consumes("RIGHT"))
       => UNCHANGED <<wifi_cursor, wifi_pass, charset_idx>>]_vars

\* the UI after n consecutive events k dispatched on the password page, and
\* the characters those events put at the cursor
RECURSIVE Presses(_, _, _)
Presses(u, k, n) ==
    IF n = 0 THEN u
    ELSE LET v == ApplyWifiPass(u, k)
         IN IF v.state_changed THEN Presses(v, k, n - 1) ELSE v

RECURSIVE CharsShown(_, _, _)
CharsShown(u, k, n) ==
    IF n = 0 THEN {}
    ELSE LET v == ApplyWifiPass(u, k)
         IN {v.wifi_pass[v.wifi_cursor + 1]} \cup CharsShown(v, k, n - 1)

\* C20: in WifiPasswordEntry, at the current cursor, CharsetLen consecutive UP
\* events (and likewise DOWN events) put every character of the charset at
\* the cursor and end on the character they started from, UP followed by DOWN
\* restores the character, and no other position of the buffer changes.
C20_CyclingIsARing ==
    state = STATE_WIFI_PASS =>
        \A k \in {"UP", "DOWN"} :
            LET back  == IF k = "UP" THEN "DOWN" ELSE "UP"
                round == Presses(U, k, CharsetLen)
                there == Presses(U, k, 1)
            IN /\ CharsShown(U, k, CharsetLen) = 0..(CharsetLen - 1)
               /\ round.wifi_pass = wifi_pass
               /\ round.wifi_cursor = wifi_cursor
               /\ Presses(there, back, 1).wifi_pass = wifi_pass
               /\ \A i \in 1..PassLen :
                     i # wifi_cursor + 1 => there.wifi_pass[i] = wifi_pass[i]

\* C23: a pass that consumes SELECT in WifiList goes to SettingsRoot when
\* Wi-Fi is unsupported; otherwise changes nothing and reports no change while
\* a scan is in progress; otherwise, with an empty network list, starts a scan
\* and stays in WifiList; otherwise enters WifiPasswordEntry with the network
\* at the selected index as target.
C23_SelectInWifiList ==
    [][(state = STATE_WIFI_LIST /\ main_pc = "loop" /\ Consumes("SELECT"))
       => IF ~wifi_supported
          THEN state' = STATE_SETTINGS_ROOT /\ state_changed'
          ELSE IF wifi_scanning
          THEN UNCHANGED uiVars /\ ~state_changed' /\ UNCHANGED scan_pc
          ELSE IF wifi_ssids = <<>>
          THEN /\ state' = STATE_WIFI_LIST /\ state_changed'
               /\ wifi_scanning' /\ scan_pc' = "get_active"
          ELSE /\ state' = STATE_WIFI_PASS /\ state_changed'
               /\ wifi_target' = wifi_ssids[wifi_sel + 1]
               /\ UNCHANGED <<wifi_scanning, scan_pc>>]_vars

\* the second listed network was selected and its password page opened
C23_Witness ==
    /\ state = STATE_WIFI_PASS /\ ev.kind = "SELECT" /\ state_changed
    /\ wifi_sel = 1 /\ wifi_target = "b" /\ ~wifi_scanning

\* the parent of a state other than Main
ParentOf(st) ==
    CASE st = STATE_WIFI_PASS -> STATE_WIFI_LIST
      [] st = STATE_SETTINGS_ROOT -> STATE_MAIN
      [] OTHER -> STATE_SETTINGS_ROOT

\* C24: a pass that consumes LEFT in a state other than Main ends in the
\* parent of that state, whatever the Wi-Fi flags, status and list are; and
\* from every reachable state three LEFT events lead to Main.
C24_LeftLeavesToParent ==
    /\ [][(state # STATE_MAIN /\ main_pc = "loop" /\ Consumes("LEFT"))
          => (state' = ParentOf(state) /\ main_pc' = "loop" /\ state_changed')
        ]_vars
    /\ [](state # STATE_MAIN =>
             LET l1 == Apply(U, "LEFT", NoLoad, TRUE)
                 l2 == IF l1.state = STATE_MAIN THEN l1
                       ELSE Apply(l1, "LEFT", NoLoad, TRUE)
                 l3 == IF l2.state = STATE_MAIN THEN l2
                       ELSE Apply(l2, "LEFT", NoLoad, TRUE)
             IN l3.state = STATE_MAIN)

\* LEFT left the Wi-Fi list for the settings menu while a scan was running
C24_Witness ==
    /\ state = STATE_SETTINGS_ROOT /\ ev.kind = "LEFT" /\ state_changed
    /\ wifi_scanning /\ wifi_scan_status = "Scanning..."

\* C25: in every reachable SettingsRoot state, LEFT yields state Main with
\* page equal to the last page of the loaded station list.
C25_LeftToSettingsLanding ==
    state = STATE_SETTINGS_ROOT =>
        LET v == Apply(U, "LEFT", NoLoad, TRUE)
        IN v.state = STATE_MAIN /\ v.page = last_page

\* C26: the settings selection is always within [0, SettingsCount - 1]; a
\* pass that consumes UP or DOWN in SettingsRoot moves it by one modulo the
\* entry count; and UP followed by DOWN restores it.
C26_SettingsSelectionWraps ==
    /\ [](settings_sel \in 0..(SettingsCount - 1))
    /\ [](state = STATE_SETTINGS_ROOT =>
             /\ Apply(Apply(U, "UP", NoLoad, TRUE), "DOWN", NoLoad, TRUE).settings_sel
                    = settings_sel
             /\ Apply(Apply(U, "DOWN", NoLoad, TRUE), "UP", NoLoad, TRUE).settings_sel
                    = settings_sel)
    /\ [][(state = STATE_SETTINGS_ROOT /\ main_pc = "loop"
           /\ ev' # ev /\ ev'.kind \in {"UP", "DOWN"})
          => /\ state' = STATE_SETTINGS_ROOT
             /\ settings_sel' =
                  IF ev'.kind = "UP"
                  THEN (IF settings_sel = 0 THEN SettingsCount - 1
                        ELSE settings_sel - 1)
                  ELSE (IF settings_sel = SettingsCount - 1 THEN 0
                        ELSE settings_sel + 1)]_vars

\* UP at the first entry has wrapped to the last one
C26_Witness ==
    /\ state = STATE_SETTINGS_ROOT /\ ev.kind = "UP" /\ state_changed
    /\ settings_sel = SettingsCount - 1

\* C27: a pass that consumes an event and leaves every UI variable, the
\* snapshots and the saved settings as they were ends with state_changed
\* false.
C27_NoChangeReportsFalse ==
    [][(LoopPass /\ ev' # ev /\ main_pc' = "loop"
        /\ UNCHANGED <<uiVars, arrivals, force_refresh, saved, scan_pc>>)
       => ~state_changed']_vars

\* C30: a pass that consumes SELECT_LONG on a station page of Main and
\* completes sets the favorite to page - 1, writes it to the settings file
\* and ends with state_changed true, the state and page as they were; in
\* every other state or page dispatching SELECT_LONG changes nothing.
C30_LongSelectMarksFavorite ==
    /\ [][(state = STATE_MAIN /\ 1 <= page /\ page <= station_count
           /\ main_pc = "loop" /\ Consumes("SELECT_LONG") /\ main_pc' = "loop")
          => /\ favorite_station_index' = page - 1
             /\ saved' = [fav |-> page - 1, buf |-> leave_buffer_min]
             /\ state_changed'
             /\ state' = STATE_MAIN /\ page' = page
             /\ UNCHANGED <<leave_buffer_min, station_count, last_page>>]_vars
    /\ [](~(state = STATE_MAIN /\ 1 <= page /\ page <= station_count)
            => \A load \in LoadResults, save_ok \in BOOLEAN :
                   Apply(U, "SELECT_LONG", load, save_ok) = U)

\* the second station was marked as favorite and saved
C30_Witness ==
    /\ state = STATE_MAIN /\ ev.kind = "SELECT_LONG" /\ state_changed
    /\ page = 2 /\ favorite_station_index = 1 /\ saved.fav = 1

\* C28: a cycle of the arrivals worker or of the weather worker that fails
\* leaves the worker at a position of its loop (the next feed or the wait for
\* the next cycle) and the published data as it was, and records the failure in the worker's snapshot (for the arrivals
\* worker in last_error of the station, for the weather worker in a field of
\* the weather snapshot, which then differs from the one before).
C28_WorkerFailureRecorded ==
    [][/\ (\E o \in {"request_error", "other_error"}, n \in ArrivalCounts :
              MonFetch(o, n))
          => /\ arrivals' = arrivals
             /\ last_error'[mon_feed] # ""
             /\ mon_feed' \in StationIdx \cup {NoneIdx}
       /\ (\E snap \in WeatherSnaps : WeatherRefresh(FALSE, snap))
          => /\ wx_pc' = "wait"
             /\ wx' # wx]_vars

\* C21: the leave line of the home page.  With no favorite it is a
\* placeholder; with a favorite none of whose arrivals has a known ETA it is
\* the "no ETA" placeholder; otherwise the chosen ETA is the smallest known ETA
\* that is at least the buffer, or the smallest known ETA when none is, and
\* the line is "Leave now" when chosen - buffer <= 0 and "Leave in NN min"
\* with NN = chosen - buffer otherwise.  Arrivals with an unknown ETA play no
\* part.
SmallestOf(S) == CHOOSE e \in S : \A f \in S : e <= f

ExpectedLeaveLine(fav, buffer, arr) ==
    LET known == {arr[i][2] : i \in 1..Len(arr)} \ {NoneIdx}
        late  == {e \in known : e >= buffer}
        chosen == IF late # {} THEN SmallestOf(late) ELSE SmallestOf(known)
    IN IF fav = NoneIdx THEN <<"F", "a", "v", ":", " ", "(", "h", "o", "l", "d", " ", "S", "e", "l", "e", "c", "t", ")">>
       ELSE IF known = {} THEN <<"F", "a", "v", ":", " ", "n", "o", " ", "E", "T", "A">>
       ELSE IF chosen - buffer <= 0 THEN <<"L", "e", "a", "v", "e", " ", "n", "o", "w">>
       ELSE <<"L", "e", "a", "v", "e", " ", "i", "n", " ">> \o Dec2(chosen - buffer) \o <<" ", "m", "i", "n">>

C21_LeaveLine ==
    (rendered /\ state = STATE_MAIN /\ page = 0)
    => last_lines[3] =
          Pad(ExpectedLeaveLine(favorite_station_index, leave_buffer_min,
                                render_in.arr), COLS)

\* a pass that consumed a button press has rendered the home page for a
\* favorite with buffer 10 and the line reads "Leave in 10 min" (ETAs 9, 3, 20)
C21_Witness ==
    /\ ev.kind # "NONE" /\ rendered
    /\ state = STATE_MAIN /\ page = 0
    /\ favorite_station_index = 0 /\ leave_buffer_min = 10
    /\ Len(render_in.arr) = MaxArrivals
    /\ last_lines[3] = Pad(<<"L", "e", "a", "v", "e", " ", "i", "n", " ", "1", "0", " ", "m", "i", "n">>, COLS)

\* C22: at every render of a marquee field (the station name on a station
\* page, the weather text on the home page): a text no longer than the field
\* has offset 0; a longer text has its offset advanced by one modulo
\* (length + gap) when a tick interval has passed since the field's last tick,
\* and unchanged otherwise; and the render of one field leaves the offset of
\* the other as it was.
\* what load_settings returns to a pass of the loop that calls it
SettingsRead == IF NeedsLoad THEN LoadResults ELSE {NoLoad}

MarqueeClaim(len, width, off, since, off2) ==
    IF len <= width THEN off2 = 0
    ELSE IF since >= MarqueeTick THEN off2 = (off + 1) % (len + MarqueeGap)
    ELSE off2 = off

C22_MarqueeOffsets ==
    [][\A d \in LcdPasses, load \in SettingsRead :
         (rendered' /\ MainLoopLcd(d, load))
         => IF state' = STATE_MAIN /\ page' = 0
            THEN /\ MarqueeClaim(Len(wx.condition_text), 8, home_weather_offset,
                                 Min(MarqueeTick, home_weather_since + 2 * d),
                                 home_weather_offset')
                 /\ marquee_offset' = marquee_offset
            ELSE IF state' = STATE_MAIN /\ page' < last_page'
            THEN /\ MarqueeClaim(Len(StopName(page' - 1)), 18, marquee_offset,
                                 Min(MarqueeTick, marquee_since + 2 * d),
                                 marquee_offset')
                 /\ home_weather_offset' = home_weather_offset
            ELSE /\ marquee_offset' = marquee_offset
                 /\ home_weather_offset' = home_weather_offset]_vars

\* both fields have scrolled, each to an offset of its own, and the station
\* name is the field being rendered
C22_Witness ==
    /\ rendered /\ state = STATE_MAIN /\ 0 < page /\ page < last_page
    /\ marquee_offset > 0 /\ home_weather_offset > 0
    /\ marquee_offset # home_weather_offset

\* C29: whatever the state, the page and the snapshots read, the frame on the
\* display is exactly 4 lines, each of at most 20 characters.
C29_FrameIsFourLinesOfTwenty ==
    /\ Len(last_lines) = 4
    /\ \A r \in 1..Len(last_lines) : Len(last_lines[r]) <= 20

\* a pass that consumed a button press has rendered the first station page
\* with an arrival 1000 minutes away: "1000m" is cut at the edge of the display
C29_Witness ==
    /\ ev.kind # "NONE" /\ rendered
    /\ state = STATE_MAIN /\ page = 1
    /\ SubSeq(last_lines[2], 17, 20) = <<"1", "0", "0", "0">>

\* C33: the favorite is unset or an index into the loaded station list, after
\* any SELECT_LONG and any reload of settings.json.
C33_FavoriteIsAStation ==
    \/ favorite_station_index = NoneIdx
    \/ (0 <= favorite_station_index /\ favorite_station_index < station_count)

\* a reload has just brought a favorite the program had not saved itself
C33_Witness ==
    /\ state = STATE_WEB /\ ev.kind = "SELECT" /\ main_pc = "loop"
    /\ favorite_station_index # NoneIdx
    /\ saved.fav = NoneIdx

\* The leave buffer: a run starts on the "Leave buffer" page, opened from the
\* settings menu and rendered, with settings.json as it was loaded.
InitBuffer ==
    /\ \E s \in {f \in LoadedSettings : f.fav = NoneIdx} :
          /\ station_count = s.count
          /\ last_page = s.count + 1
          /\ page = s.count + 1
          /\ last_page_seen = s.count + 1
          /\ favorite_station_index = s.fav
          /\ leave_buffer_min = s.buf
    /\ state = STATE_BUFFER
    /\ settings_sel = 3
    /\ station_scroll = [i \in StationIdx |-> 0]
    /\ wifi_supported = FALSE
    /\ wifi_ssids = <<>>
    /\ wifi_sel = 0
    /\ wifi_active = ""
    /\ wifi_target = ""
    /\ wifi_pass = BlankPass
    /\ wifi_cursor = 0
    /\ charset_idx = 0
    /\ wifi_scanning = FALSE
    /\ wifi_scan_status = ""
    /\ main_pc = "loop"
    /\ ev = NoEvent
    /\ state_changed = FALSE
    /\ since_render = 0
    /\ rendered = TRUE
    /\ queue = <<>>
    /\ pushed = 0
    /\ arrivals = [i \in StationIdx |-> 0]
    /\ force_refresh = FALSE
    /\ saved = [fav |-> favorite_station_index, buf |-> leave_buffer_min]
    /\ connect_calls = 0
    /\ scan_pc = "idle"
    /\ td_pc = "web"
    /\ attempted = {}
    /\ InitWorkers
    /\ InitLcdui
    /\ sel_rhs = NoneIdx
    /\ lcd = RenderNow(U).frame

NextBuffer ==
    \/ \E k \in Kinds : Push(k, MaxQueue, MaxEventsBuffer)
    \/ \E d \in SlowPasses, load \in LoadResults : MainLoop(d, load)

SpecBuffer == InitBuffer /\ [][NextBuffer]_vars

\* C39: the leave buffer written to settings.json changes only by SELECT on
\* the "Leave buffer" page, and the leave buffer in use changes only by UP or
\* DOWN on that page.
C39_LeaveBufferFrame ==
    [][ /\ (saved'.buf # saved.buf
              => state = STATE_BUFFER /\ ev'.kind = "SELECT")
        /\ (leave_buffer_min' # leave_buffer_min
              => state = STATE_BUFFER /\ ev'.kind \in {"UP", "DOWN"}) ]_vars

\* The Wi-Fi list while a scan runs: a run starts on the password page of a
\* scanned network (InitPass); the connect attempt returns to the list of the
\* earlier scan and starts a new scan.
\* the UP or DOWN branch of the Wi-Fi list has evaluated its right-hand side
\* from wifi_ssids and wifi_sel while the scan worker is alive; the store
\* follows in MainPass
MoveRead ==
    /\ main_pc = "loop" /\ sel_rhs = NoneIdx
    /\ scan_pc # "idle"
    /\ state = STATE_WIFI_LIST
    /\ queue # <<>> /\ Head(queue).kind \in {"UP", "DOWN"}
    /\ wifi_ssids # <<>>
    /\ sel_rhs' = ApplyWifiList(U, Head(queue).kind).wifi_sel
    /\ UNCHANGED <<uiVars, loopVars, envVars, tdVars, monVars, workVars, lcdVars>>

NextRace ==
    \/ \E k \in Kinds : Push(k, MaxQueue, MaxEventsRace)
    \/ MoveRead
    \/ \E d \in SlowPasses, load \in LoadResults : MainLoop(d, load)
    \/ \E ok \in BOOLEAN : ConnectReturn(ok)
    \/ \E a \in ActiveSsids : ScanGetActive(a)
    \/ \E res \in ScanResults : ScanSsids(res)
    \/ ScanSel
    \/ ScanStatus
    \/ ScanFinally

SpecRace == InitPass /\ [][NextRace]_vars

\* C34: whenever the loop applies SELECT on the Wi-Fi list with no scan in
\* progress and a non-empty list, wifi_sel is an index of the list.
C34_SelectWithinList ==
    [][ ( /\ main_pc = "loop" /\ state = STATE_WIFI_LIST
          /\ queue # <<>> /\ Head(queue).kind = "SELECT" /\ ev' = Head(queue)
          /\ ~wifi_scanning /\ wifi_ssids # <<>> )
        => (0 <= wifi_sel /\ wifi_sel < Len(wifi_ssids)) ]_vars

\* C35: whenever render_now draws the Wi-Fi list with the status
\* "Scanning...", a scan worker is in progress (wifi_scanning is set).
C35_ScanningShownOnlyWhileScanning ==
    [][ ( /\ LoopPass /\ rendered'
          /\ lcd'.screen = STATE_WIFI_LIST /\ lcd'.status = "Scanning..." )
        => wifi_scanning' ]_vars

\* C31: at no time are two arrivals workers running: the thread of a Monitor
\* that a reload has replaced is not running any more.
C31_OneArrivalsWorker == old_pc \in {"none", "done"}

ScanFairness ==
    /\ WF_vars(\E a \in ActiveSsids : ScanGetActive(a))
    /\ WF_vars(\E res \in ScanResults : ScanSsids(res))
    /\ WF_vars(ScanSel)
    /\ WF_vars(ScanStatus)
    /\ WF_vars(ScanFinally)

SpecPassFair == SpecPass /\ ScanFairness

WindowAt(text, width, off) == MarqueeWindow(text, width, off, 0).window

C37_MarqueeWindowAndOffset ==
    rendered /\ state = STATE_MAIN /\ page < last_page
    => IF page = 0
       THEN /\ home_weather_offset < Len(wx.condition_text) + MarqueeGap
            /\ Len(WindowAt(wx.condition_text, 8, home_weather_offset)) = 8
       ELSE /\ marquee_offset < Len(StopName(page - 1)) + MarqueeGap
            /\ Len(WindowAt(StopName(page - 1), 18, marquee_offset)) = 18

\* C38: writing only the changed rows is the same as writing the whole frame.
\* After any renders every row of the display shows the 20-character padded
\* line of the most recent frame, and a render writes a row only when its
\* padded line differs from the line last written to that row.
C38_ChangedRowsAreTheWholeFrame ==
    /\ [](norm # <<>>
            => \A r \in 1..ROWS : display[r] = norm[r] /\ Len(display[r]) = COLS)
    \* a step of the main thread that rendered: not a button callback, not a
    \* statement of the scan worker
    /\ [][(rendered' /\ pushed' = pushed
              /\ (scan_pc' = scan_pc \/ scan_pc = "idle"))
            => \A r \in written' : norm = <<>> \/ norm'[r] # norm[r]]_vars

\* a button press has been rendered by writing some rows and leaving the
\* others as the frame before had them
C38_Witness ==
    /\ ev.kind # "NONE" /\ rendered
    /\ written # {} /\ written # 1..ROWS
    /\ display = norm

====
